---------------------------- MODULE Spec2Model ----------------------------
(***************************************************************************)
(* A model of TAP, the argument parser (hbruintjes/tap): declared          *)
(* arguments with shared occurrence counters, constraint nodes, argument   *)
(* sets and the parser engine.                                             *)
(*                                                                         *)
(* Strings are sequences of one-character strings, so that the tokenizer   *)
(* (prefix comparison, find, substr) and the stream decoder are computed   *)
(* as the code computes them.  An exception is an error record; an         *)
(* operation that meets a pending error does nothing.                      *)
(***************************************************************************)
EXTENDS Integers, Sequences, FiniteSets, TLC

VARIABLES
    streamsafe,     \* build switch TAP_STREAMSAFE
    handles,        \* the caller's own argument objects, by position
    m_argSets,      \* basic_argument_parser::m_argSets
    m_constraints,  \* basic_argument_parser::m_constraints
    count,          \* the shared occurrence counters (*m_count), by cell
    value,          \* the storage cells (*m_storage), by cell
    argv,           \* the argument vector of the running parse call
    it,             \* parse: the iterator, as a 1-based index into argv
    noParse,        \* parse: the skip marker has been seen
    phase,          \* where the parse call is
    err,            \* the exception that ended the last call, if any
    log,            \* what the last call did, in order
    op              \* the last operation and its operand

vars == <<streamsafe, handles, m_argSets, m_constraints, count, value,
          argv, it, noParse, phase, err, log, op>>

-----------------------------------------------------------------------------
(* Bounds of the model *)

MaxArgc == 3
MaxCount == 2
NumHandles == 5

\* The heap cells: one per declared argument, and room for as many again
Cells == 1..(2 * NumHandles)

(* Program constants *)

flagStart == <<"-">>
nameStart == <<"-", "-">>
nameDelim == "="
skip == <<"-", "-">>
DefaultMin == 1
DefaultMax == 1

-----------------------------------------------------------------------------
(* std::basic_string operations used by the code *)

SubStr(s, pos, n) ==
    \* s.substr(pos, n), pos 0-based, clipped at the end of s
    LET last == IF pos + n > Len(s) THEN Len(s) ELSE pos + n
    IN  IF pos >= Len(s) THEN <<>> ELSE SubSeq(s, pos + 1, last)

SubStrFrom(s, pos) == SubStr(s, pos, Len(s))

ComparePrefix(s, n, p) ==
    \* s.compare(0, n, p) == 0
    SubStr(s, 0, n) = p

npos == -1

Find(s, ch) ==
    \* s.find(ch): the 0-based index of the first ch, or npos
    LET hits == {i \in 1..Len(s) : s[i] = ch}
    IN  IF hits = {} THEN npos
        ELSE (CHOOSE i \in hits : \A j \in hits : i <= j) - 1

-----------------------------------------------------------------------------
(* The stream decoder, detail::setValue *)

Whitespace == {" "}
Digits == {"0", "1", "2", "3", "4", "5", "6", "7", "8", "9"}

DigitVal(ch) ==
    CASE ch = "0" -> 0 [] ch = "1" -> 1 [] ch = "2" -> 2 [] ch = "3" -> 3
      [] ch = "4" -> 4 [] ch = "5" -> 5 [] ch = "6" -> 6 [] ch = "7" -> 7
      [] ch = "8" -> 8 [] ch = "9" -> 9

RECURSIVE SkipWs(_)
SkipWs(s) ==
    IF s # <<>> /\ Head(s) \in Whitespace THEN SkipWs(Tail(s)) ELSE s

RECURSIVE TakeWhile(_, _)
TakeWhile(s, set) ==
    IF s # <<>> /\ Head(s) \in set
    THEN <<Head(s)>> \o TakeWhile(Tail(s), set)
    ELSE <<>>

RECURSIVE DecValue(_, _)
DecValue(ds, acc) ==
    IF ds = <<>> THEN acc ELSE DecValue(Tail(ds), 10 * acc + DigitVal(Head(ds)))

\* iss >> x for an int x.  The result says whether the stream is still good
\* (fail), whether x was written (wrote) and with what (val), and what is
\* left in the stream (rest).  Tokens are short, so no value overflows int.
ExtractInt(s) ==
    LET Number(t, negative, body, ds) ==
            IF t = <<>>
            THEN [fail |-> TRUE, wrote |-> FALSE, val |-> 0, rest |-> <<>>]
            ELSE IF ds = <<>>
            THEN [fail |-> TRUE, wrote |-> TRUE, val |-> 0, rest |-> t]
            ELSE [fail |-> FALSE, wrote |-> TRUE,
                  val |-> (IF negative THEN -1 ELSE 1) * DecValue(ds, 0),
                  rest |-> SubStrFrom(body, Len(ds))]
        Signed(t, body) ==
            Number(t, t # <<>> /\ Head(t) = "-", body, TakeWhile(body, Digits))
        Skipped(t) ==
            Signed(t, IF t # <<>> /\ Head(t) \in {"+", "-"} THEN Tail(t) ELSE t)
    IN  Skipped(SkipWs(s))

\* iss >> x for a string x: one whitespace-delimited word.
ExtractString(s) ==
    LET Word(t, word) ==
            IF t = <<>>
            THEN [fail |-> TRUE, wrote |-> FALSE, val |-> <<>>, rest |-> <<>>]
            ELSE [fail |-> FALSE, wrote |-> TRUE, val |-> word,
                  rest |-> SubStrFrom(t, Len(word))]
        Skipped(t) ==
            Word(t, TakeWhile(t, {t[i] : i \in 1..Len(t)} \ Whitespace))
    IN  Skipped(SkipWs(s))

Extract(vtype, s) ==
    IF vtype = "int" THEN ExtractInt(s) ELSE ExtractString(s)

\* A setValue that would stream into the storage whatever the build
setValue_direct(vtype, tok, storage, safe) ==
    LET Result(x, ok) ==
            [ok |-> ok, storage |-> IF x.wrote THEN x.val ELSE storage]
        Streamed(x) == Result(x, ~x.fail /\ x.rest = <<>>)
    IN  Streamed(Extract(vtype, tok))

\* setValue(value, storage): [ok, storage] after the call.  With
\* TAP_STREAMSAFE the stream writes a local copy that is committed on
\* success only; without it the stream writes the storage itself.
setValue(vtype, tok, storage, safe) ==
    LET Result(x, ok) ==
            [ok      |-> ok,
             storage |-> IF safe
                         THEN (IF ok THEN x.val ELSE storage)
                         ELSE (IF x.wrote THEN x.val ELSE storage)]
        Streamed(x) == Result(x, ~x.fail /\ x.rest = <<>>)
    IN  Streamed(Extract(vtype, tok))

-----------------------------------------------------------------------------
(* Exceptions.  who: the arguments or children the exception carries.    *)

NoErr == [kind |-> "none", who |-> <<>>, n |-> 0]

Raise(kind, who, n) == [kind |-> kind, who |-> who, n |-> n]

Failed(st) == st.err.kind # "none"

-----------------------------------------------------------------------------
(* Declared arguments: basic_argument and the typed classes.  An argument *)
(* object is a record; its counter and storage are cells of the heap, so  *)
(* that a copy of the record shares them.                                  *)

\* The constructors: positional iff constructed with neither flag nor name;
\* typed_argument sets m_max to 0 for a multi argument.
NewArgument(description, klass, vtype, multi, flags, names, cell) ==
    [type           |-> "arg",
     description    |-> description,
     klass          |-> klass,
     vtype          |-> vtype,
     multi          |-> multi,
     m_flags        |-> flags,
     m_names        |-> names,
     m_isPositional |-> (flags = <<>> /\ names = <<>>),
     m_min          |-> DefaultMin,
     m_max          |-> IF multi THEN 0 ELSE DefaultMax,
     m_required     |-> FALSE,
     m_count        |-> cell,
     m_storage      |-> cell,
     m_checkFunc    |-> "null",
     m_valueName    |-> <<"value">>]

alias(a, flag) == [a EXCEPT !.m_flags = Append(@, flag)]

set_required(a, required) == [a EXCEPT !.m_required = required]

required(a) == a.m_required

\* min(0) throws std::logic_error and changes nothing
min(a, n) ==
    IF n = 0 THEN a
    ELSE [a EXCEPT !.m_min = n,
                   !.m_max = IF n > a.m_max /\ a.m_max # 0 THEN n ELSE a.m_max]

max(a, n) == [a EXCEPT !.m_max = n]

many(a, b) ==
    IF ~b THEN [a EXCEPT !.m_max = IF a.m_max > 1 THEN a.m_max ELSE 1]
    ELSE [a EXCEPT !.m_max = 0]

check(a, checkFunc) == [a EXCEPT !.m_checkFunc = checkFunc]

matches(a) == a.m_isPositional

matchesFlag(a, flag) == \E i \in 1..Len(a.m_flags) : a.m_flags[i] = flag

matchesName(a, name) == \E i \in 1..Len(a.m_names) : a.m_names[i] = name

\* A can_set that would allow one occurrence more
can_set_le(a, st) == a.m_max = 0 \/ st.count[a.m_count] <= a.m_max

can_set(a, st) == a.m_max = 0 \/ st.count[a.m_count] < a.m_max

takes_value(a) == a.klass = "variable" /\ a.vtype # "bool"

\* A copy that would own a counter of its own instead of sharing one
clone_fresh(a) ==
    [a EXCEPT !.m_count = ((@ - 1) % NumHandles) + NumHandles + 1]

\* The copy constructor behind clone(): every member is copied, the
\* shared_ptr m_count and the storage pointer included.
clone_argument(a) == a

\* check(): the callback, if one is set.  A callback either returns or throws.
doCheck(a, st) ==
    IF a.m_checkFunc = "null" THEN st
    ELSE [st EXCEPT !.log = Append(@, <<"check", a.description>>),
                    !.err = IF a.m_checkFunc = "throw"
                            THEN Raise("exception", <<a>>, 0) ELSE @]

\* A set() that would run the check before it counts
basic_set_checked(a, st) ==
    LET Counted(st1) ==
            IF Failed(st1) THEN st1
            ELSE [st1 EXCEPT !.count[a.m_count] = @ + 1,
                             !.log = Append(@, <<"count", a.description>>)]
    IN  IF Failed(st) THEN st ELSE Counted(doCheck(a, st))

\* basic_argument::set(): (*m_count)++; check();
basic_set(a, st) ==
    IF Failed(st) THEN st
    ELSE doCheck(a, [st EXCEPT !.count[a.m_count] = @ + 1,
                               !.log = Append(@, <<"count", a.description>>)])

\* basic_switch_argument::set(): basic set, then the stored bool is inverted
switch_set(a, st) ==
    LET Invert(st1) == IF Failed(st1) THEN st1
                       ELSE [st1 EXCEPT !.value[a.m_storage] = ~@]
    IN  Invert(basic_set(a, st))

\* set() through the virtual table
set(a, st) ==
    IF Failed(st) THEN st
    ELSE CASE a.klass = "basic"    -> basic_set(a, st)
           [] a.klass = "switch"   -> switch_set(a, st)
           [] a.klass = "variable" ->
                [st EXCEPT !.err = Raise("logic_error", <<a>>, 0)]

\* A set(value) whose vector overload would push the local back whether or
\* not it was decoded
variable_set_push(a, tok, st, safe) ==
    LET Loaded(r) ==
            IF ~r.ok
            THEN [st EXCEPT !.value[a.m_storage] = r.storage,
                            !.err = Raise("argument_invalid_value", <<a>>, 0)]
            ELSE basic_set(a, doCheck(a,
                    [st EXCEPT !.value[a.m_storage] = r.storage,
                               !.log = Append(@, <<"store", a.description>>)]))
        Vector(r) ==
            [ok |-> r.ok,
             storage |-> Append(st.value[a.m_storage], r.storage)]
        Stream(storage) ==
            IF a.multi THEN Loaded(Vector(setValue(a.vtype, tok, <<>>, safe)))
            ELSE Loaded(setValue(a.vtype, tok, storage, safe))
    IN  IF Failed(st) THEN st ELSE Stream(st.value[a.m_storage])

\* basic_variable_argument::set(value): decode into the storage, run the
\* check, then basic_argument::set()
variable_set(a, tok, st, safe) ==
    LET Loaded(r) ==
            \* r: what setValue answered and left in the storage
            IF ~r.ok
            THEN [st EXCEPT !.value[a.m_storage] = r.storage,
                            !.err = Raise("argument_invalid_value", <<a>>, 0)]
            ELSE basic_set(a, doCheck(a,
                    [st EXCEPT !.value[a.m_storage] = r.storage,
                               !.log = Append(@, <<"store", a.description>>)]))
        Vector(r) ==
            \* the vector overload: a local is decoded, then pushed back
            [ok |-> r.ok,
             storage |-> IF r.ok THEN Append(st.value[a.m_storage], r.storage)
                         ELSE st.value[a.m_storage]]
        Stream(storage) ==
            IF a.multi THEN Loaded(Vector(setValue(a.vtype, tok, <<>>, safe)))
            ELSE Loaded(setValue(a.vtype, tok, storage, safe))
    IN  IF Failed(st) THEN st ELSE Stream(st.value[a.m_storage])

\* A check_valid that would not look at the minimum
argument_check_valid_max(a, st) ==
    IF st.count[a.m_count] = 0
    THEN (IF a.m_required
          THEN Raise("argument_count_mismatch", <<a>>, 1) ELSE NoErr)
    ELSE IF st.count[a.m_count] > a.m_max /\ a.m_max # 0
    THEN Raise("argument_count_mismatch", <<a>>, a.m_max)
    ELSE NoErr

\* A check_valid that would not look at the required flag
argument_check_valid_lax(a, st) ==
    IF st.count[a.m_count] = 0 THEN NoErr
    ELSE IF st.count[a.m_count] < a.m_min
    THEN Raise("argument_count_mismatch", <<a>>, a.m_min)
    ELSE IF st.count[a.m_count] > a.m_max /\ a.m_max # 0
    THEN Raise("argument_count_mismatch", <<a>>, a.m_max)
    ELSE NoErr

\* Argument::check_valid()
argument_check_valid(a, st) ==
    LET c == st.count[a.m_count]
    IN  IF c = 0
        THEN (IF a.m_required
              THEN Raise("argument_count_mismatch", <<a>>, 1) ELSE NoErr)
        ELSE IF c < a.m_min
        THEN Raise("argument_count_mismatch", <<a>>, a.m_min)
        ELSE IF c > a.m_max /\ a.m_max # 0
        THEN Raise("argument_count_mismatch", <<a>>, a.m_max)
        ELSE NoErr

-----------------------------------------------------------------------------
(* Constraint nodes: basic_argument_constraint<CType> and the argument    *)
(* set.  A node owns its children, which are copies.                      *)

IsArg(n) == n.type = "arg"

\* A constraint with no children yet; an argument set is the Any kind with
\* a name, and is constructed not required.
NewConstraint(ctype) ==
    [type          |-> "constraint",
     ctype         |-> ctype,
     m_required    |-> FALSE,
     m_args        |-> <<>>,
     m_usageString |-> <<>>,
     m_name        |-> <<>>]

RECURSIVE clone(_)
RECURSIVE node_count(_, _)
RECURSIVE find_all_arguments(_)
RECURSIVE check_valid(_, _)
RECURSIVE CheckValidImp(_, _, _, _)
RECURSIVE CheckValidOne(_, _, _, _)
RECURSIVE CheckValidAny(_, _, _, _)
RECURSIVE CheckValidAll(_, _, _, _, _, _)

\* clone(): an argument copies itself; a constraint's copy constructor
\* clones every child
clone(n) ==
    IF IsArg(n) THEN clone_argument(n)
    ELSE [n EXCEPT !.m_args = [i \in 1..Len(n.m_args) |-> clone(n.m_args[i])]]

\* count(): an argument reads its counter; a constraint answers 1 as soon
\* as one child is set, else 0
node_count(n, st) ==
    IF IsArg(n) THEN st.count[n.m_count]
    ELSE IF \E i \in 1..Len(n.m_args) : node_count(n.m_args[i], st) > 0
         THEN 1 ELSE 0

\* An is_set that would see arguments only, never a constraint node
is_set_argument(n, st) == IsArg(n) /\ node_count(n, st) > 0

\* is_set(): count() > 0
is_set(n, st) == node_count(n, st) > 0

\* find_all_arguments(collector): the arguments below n, left to right
find_all_arguments(n) ==
    IF IsArg(n) THEN <<n>>
    ELSE LET RECURSIVE collect(_)
             collect(i) == IF i > Len(n.m_args) THEN <<>>
                           ELSE find_all_arguments(n.m_args[i]) \o collect(i + 1)
         IN  collect(1)

\* basic_argument_set::args()
args(argSet) == find_all_arguments(argSet)

\* usage() of an argument: basic_argument and basic_variable_argument
argument_usage(a) ==
    IF a.klass = "variable"
    THEN (IF ~a.m_isPositional
          THEN (IF Len(a.m_flags) > 0 THEN flagStart \o <<a.m_flags[1]>>
                ELSE nameStart \o a.m_names[1]) \o <<" ">>
          ELSE <<>>)
         \o a.m_valueName
         \o (IF a.m_isPositional /\ a.m_max # 1 THEN <<"...">> ELSE <<>>)
    ELSE IF Len(a.m_flags) > 0 THEN flagStart \o <<a.m_flags[1]>>
    ELSE IF Len(a.m_names) > 0 THEN nameStart \o a.m_names[1]
    ELSE <<>>

usage(n) == IF IsArg(n) THEN argument_usage(n) ELSE n.m_usageString

joinStr(ctype) == IF ctype = "One" THEN <<" | ">> ELSE <<" ">>

\* usageArgument: both overloads, chosen by the child's class
usageArgument(ctype, child) ==
    IF IsArg(child)
    THEN (IF ~child.m_required /\ ctype = "Any"
          THEN <<"[ ">> \o usage(child) \o <<" ]">>
          ELSE usage(child))
    ELSE LET paren == \/ ctype = "One"
                      \/ (ctype = "Any" /\ child.ctype # "Any")
                      \/ child.ctype = "One"
         IN  IF ~child.m_required /\ ctype = "Any" /\ child.ctype # "Any"
             THEN <<"[ ">> \o usage(child) \o <<" ]">>
             ELSE IF paren /\ Len(child.m_args) > 0
             THEN <<"( ">> \o usage(child) \o <<" )">>
             ELSE usage(child)

\* An add that would put the new child's usage in front
add_front(n, child) ==
    LET Emplace(newArg) ==
            [n EXCEPT !.m_usageString =
                          usageArgument(n.ctype, newArg)
                            \o (IF Len(n.m_args) > 0 THEN joinStr(n.ctype) ELSE <<>>)
                            \o @,
                      !.m_args = Append(@, newArg)]
    IN  Emplace(clone(child))

\* add(arg): clone the child, extend the usage string, append
add(n, child) ==
    LET Emplace(newArg) ==
            [n EXCEPT !.m_usageString =
                          @ \o (IF Len(n.m_args) > 0 THEN joinStr(n.ctype) ELSE <<>>)
                            \o usageArgument(n.ctype, newArg),
                      !.m_args = Append(@, newArg)]
    IN  Emplace(clone(child))

RECURSIVE addAll(_, _)
addAll(n, children) ==
    IF children = <<>> THEN n
    ELSE addAll(add(n, Head(children)), Tail(children))

\* basic_argument_constraint(args...) and basic_argument_set(name, args...)
Constraint(ctype, children) == addAll(NewConstraint(ctype), children)

ArgumentSet(name, children) ==
    addAll([set_required(NewConstraint("Any"), FALSE) EXCEPT !.m_name = name],
           children)

\* An implication check that would flag every unset child after the first
RECURSIVE CheckValidImp_every(_, _, _, _)
CheckValidImp_every(m_args, i, checkNext, st) ==
    IF i > Len(m_args) THEN NoErr
    ELSE LET Child(arg, isSet) ==
                 LET Checked(e) ==
                         IF e.kind # "none" THEN e
                         ELSE IF i > 1 /\ ~isSet
                         THEN Raise("constraint_error", <<arg>>, 0)
                         ELSE CheckValidImp_every(m_args, i + 1,
                                                  checkNext \/ isSet, st)
                 IN  Checked(IF isSet THEN check_valid(arg, st) ELSE NoErr)
         IN  Child(m_args[i], is_set(m_args[i], st))

\* CheckValid<Imp>: the loop from child i on, with checkNext as it stands
CheckValidImp(m_args, i, checkNext, st) ==
    IF i > Len(m_args) THEN NoErr
    ELSE LET Child(arg, isSet) ==
                 LET Checked(e) ==
                         IF e.kind # "none" THEN e
                         ELSE IF checkNext /\ ~isSet
                         THEN Raise("constraint_error", <<arg>>, 0)
                         ELSE CheckValidImp(m_args, i + 1, checkNext \/ isSet, st)
                 IN  Checked(IF isSet THEN check_valid(arg, st) ELSE NoErr)
         IN  Child(m_args[i], is_set(m_args[i], st))

\* An exactly-one check that would accept any number of set children
CheckValidOne_some(m_args, i, counter, st) ==
    IF \E j \in 1..Len(m_args) : is_set(m_args[j], st) THEN NoErr
    ELSE Raise("constraint_error", m_args, 0)

\* CheckValid<One>: the loop from child i on, with counter as it stands
CheckValidOne(m_args, i, counter, st) ==
    IF i > Len(m_args)
    THEN (IF counter # 1 THEN Raise("constraint_error", m_args, 0) ELSE NoErr)
    ELSE LET Child(arg, isSet) ==
                 LET Checked(e) ==
                         IF e.kind # "none" THEN e
                         ELSE CheckValidOne(m_args, i + 1,
                                  IF isSet THEN counter + 1 ELSE counter, st)
                 IN  Checked(IF isSet THEN check_valid(arg, st) ELSE NoErr)
         IN  Child(m_args[i], is_set(m_args[i], st))

\* An at-least-one check that would validate the set children only
RECURSIVE CheckValidAny_set(_, _, _, _)
CheckValidAny_set(m_args, i, failed_args, st) ==
    IF i > Len(m_args)
    THEN (IF Len(failed_args) > 0
          THEN Raise("constraint_error", failed_args, 0) ELSE NoErr)
    ELSE LET Child(arg, isSet) ==
                 LET Checked(e) ==
                         IF e.kind # "none" THEN e
                         ELSE CheckValidAny_set(m_args, i + 1,
                                  IF required(arg) /\ ~isSet
                                  THEN Append(failed_args, arg)
                                  ELSE failed_args, st)
                 IN  Checked(IF isSet THEN check_valid(arg, st) ELSE NoErr)
         IN  Child(m_args[i], is_set(m_args[i], st))

\* CheckValid<Any>: the loop from child i on, with failed_args as it stands
CheckValidAny(m_args, i, failed_args, st) ==
    IF i > Len(m_args)
    THEN (IF Len(failed_args) > 0
          THEN Raise("constraint_error", failed_args, 0) ELSE NoErr)
    ELSE LET Child(arg, isSet) ==
                 LET Checked(e) ==
                         IF e.kind # "none" THEN e
                         ELSE CheckValidAny(m_args, i + 1,
                                  IF required(arg) /\ ~isSet
                                  THEN Append(failed_args, arg)
                                  ELSE failed_args, st)
                 IN  Checked(IF isSet \/ required(arg)
                             THEN check_valid(arg, st) ELSE NoErr)
         IN  Child(m_args[i], is_set(m_args[i], st))

\* An all-or-none check that would let a partly set node pass unless the
\* node is required
RECURSIVE CheckValidAll_required(_, _, _, _, _, _)
CheckValidAll_required(m_args, i, failedArgs, counter, req, st) ==
    IF i > Len(m_args)
    THEN (IF counter < Len(m_args) /\ req
          THEN Raise("constraint_error", failedArgs, 0) ELSE NoErr)
    ELSE LET Child(arg, e) ==
                 IF e.kind # "none" THEN e
                 ELSE IF node_count(arg, st) > 0
                 THEN CheckValidAll_required(m_args, i + 1, failedArgs,
                                             counter + 1, req, st)
                 ELSE CheckValidAll_required(m_args, i + 1,
                                             Append(failedArgs, arg),
                                             counter, req, st)
         IN  Child(m_args[i], check_valid(m_args[i], st))

\* CheckValid<All>, in the sources that have the kind: the loop from child
\* i on, with failedArgs and counter as they stand
CheckValidAll(m_args, i, failedArgs, counter, req, st) ==
    IF i > Len(m_args)
    THEN (IF counter < Len(m_args) /\ (counter # 0 \/ req)
          THEN Raise("constraint_error", failedArgs, 0) ELSE NoErr)
    ELSE LET Child(arg, e) ==
                 IF e.kind # "none" THEN e
                 ELSE IF node_count(arg, st) > 0
                 THEN CheckValidAll(m_args, i + 1, failedArgs,
                                    counter + 1, req, st)
                 ELSE CheckValidAll(m_args, i + 1, Append(failedArgs, arg),
                                    counter, req, st)
         IN  Child(m_args[i], check_valid(m_args[i], st))

\* check_valid() through the virtual table
check_valid(n, st) ==
    IF IsArg(n) THEN argument_check_valid(n, st)
    ELSE CASE n.ctype = "Imp" -> CheckValidImp(n.m_args, 1, FALSE, st)
           [] n.ctype = "One" -> CheckValidOne(n.m_args, 1, 0, st)
           [] n.ctype = "Any" -> CheckValidAny(n.m_args, 1, <<>>, st)
           [] n.ctype = "All" ->
                  CheckValidAll(n.m_args, 1, <<>>, 0, required(n), st)

-----------------------------------------------------------------------------
(* The parser engine: basic_argument_parser                                *)

Null == [type |-> "null"]

\* matches(), matches(flag), matches(name), by the kind of identifier
Matches(a, ident) ==
    CASE ident.by = "position" -> matches(a)
      [] ident.by = "flag"     -> matchesFlag(a, ident.id)
      [] ident.by = "name"     -> matchesName(a, ident.id)

Positional == [by |-> "position", id |-> <<>>]
ByFlag(flag) == [by |-> "flag", id |-> flag]
ByName(name) == [by |-> "name", id |-> name]

\* The arguments findArg visits: set after set, each set's args() in order
RECURSIVE AllArgs(_)
AllArgs(argSets) ==
    IF argSets = <<>> THEN <<>>
    ELSE args(Head(argSets)) \o AllArgs(Tail(argSets))

\* A lookup that would answer the last match, whatever can still be set
RECURSIVE findArgLoop_last(_, _, _, _)
findArgLoop_last(list, ident, arg, st) ==
    IF list = <<>> THEN arg
    ELSE IF Matches(Head(list), ident)
    THEN findArgLoop_last(Tail(list), ident, Head(list), st)
    ELSE findArgLoop_last(Tail(list), ident, arg, st)

\* A lookup that would answer the first match, settable or not
RECURSIVE findArgLoop_first(_, _, _, _)
findArgLoop_first(list, ident, arg, st) ==
    IF list = <<>> THEN arg
    ELSE IF Matches(Head(list), ident) THEN Head(list)
    ELSE findArgLoop_first(Tail(list), ident, arg, st)

\* findArg: the loop over the remaining arguments, arg being the last match
RECURSIVE findArgLoop(_, _, _, _)
findArgLoop(list, ident, arg, st) ==
    IF list = <<>> THEN arg
    ELSE LET checkArg == Head(list)
         IN  IF Matches(checkArg, ident)
             THEN (IF can_set(checkArg, st) THEN checkArg
                   ELSE findArgLoop(Tail(list), ident, checkArg, st))
             ELSE findArgLoop(Tail(list), ident, arg, st)

findArg(argSets, ident, st) == findArgLoop(AllArgs(argSets), ident, Null, st)

\* set_arg_value: the argument is a value acceptor whenever it takes a value
set_arg_value(a, tok, st, safe) ==
    IF ~takes_value(a)
    THEN [st EXCEPT !.err = Raise("logic_error", <<a>>, 0)]
    ELSE variable_set(a, tok, st, safe)

\* The value of an option that has no inline value: ++it, then *it
next_value(a, av, st, safe) ==
    IF st.it + 1 > Len(av)
    THEN [st EXCEPT !.it = @ + 1,
                    !.err = Raise("argument_missing_value", <<a>>, 0)]
    ELSE set_arg_value(a, av[st.it + 1], [st EXCEPT !.it = @ + 1], safe)

IsSkip(arg) == arg = skip

IsNamed(arg, np) ==
    ~np /\ ComparePrefix(arg, Len(nameStart), nameStart) /\ arg # nameStart

IsFlags(arg, np) ==
    ~np /\ ComparePrefix(arg, Len(flagStart), flagStart) /\ arg # flagStart

\* A named branch that would leave the delimiter in the inline value
parse_named_delim(argSets, av, st, safe) ==
    LET Matched(arg, found, hasDelim, name, matchedArg) ==
            IF matchedArg = Null
            THEN [st EXCEPT !.err = Raise("unknown_argument", <<name>>, 0)]
            ELSE IF takes_value(matchedArg)
            THEN (IF hasDelim
                  THEN set_arg_value(matchedArg, SubStrFrom(arg, found),
                                     st, safe)
                  ELSE next_value(matchedArg, av, st, safe))
            ELSE IF hasDelim
            THEN [st EXCEPT !.err = Raise("argument_no_value", <<matchedArg>>, 0)]
            ELSE set(matchedArg, st)
        Named(arg, found, hasDelim, name) ==
            Matched(arg, found, hasDelim, name,
                    findArg(argSets, ByName(name), st))
        Split(arg, found, hasDelim) ==
            Named(arg, found, hasDelim,
                  IF hasDelim
                  THEN SubStr(arg, Len(nameStart), found - Len(nameStart))
                  ELSE SubStrFrom(arg, Len(nameStart)))
        Delim(arg, found) == Split(arg, found, found # npos /\ found # 0)
    IN  Delim(av[st.it], Find(av[st.it], nameDelim))

\* A named branch that would count the occurrence before it rejects the value
parse_named_counted(argSets, av, st, safe) ==
    LET Matched(arg, found, hasDelim, name, matchedArg) ==
            IF matchedArg = Null
            THEN [st EXCEPT !.err = Raise("unknown_argument", <<name>>, 0)]
            ELSE IF takes_value(matchedArg)
            THEN (IF hasDelim
                  THEN set_arg_value(matchedArg, SubStrFrom(arg, found + 1),
                                     st, safe)
                  ELSE next_value(matchedArg, av, st, safe))
            ELSE IF hasDelim
            THEN [set(matchedArg, st) EXCEPT
                      !.err = Raise("argument_no_value", <<matchedArg>>, 0)]
            ELSE set(matchedArg, st)
        Named(arg, found, hasDelim, name) ==
            Matched(arg, found, hasDelim, name,
                    findArg(argSets, ByName(name), st))
        Split(arg, found, hasDelim) ==
            Named(arg, found, hasDelim,
                  IF hasDelim
                  THEN SubStr(arg, Len(nameStart), found - Len(nameStart))
                  ELSE SubStrFrom(arg, Len(nameStart)))
        Delim(arg, found) == Split(arg, found, found # npos /\ found # 0)
    IN  Delim(av[st.it], Find(av[st.it], nameDelim))

\* The named branch of parse
parse_named(argSets, av, st, safe) ==
    LET Matched(arg, found, hasDelim, name, matchedArg) ==
            IF matchedArg = Null
            THEN [st EXCEPT !.err = Raise("unknown_argument", <<name>>, 0)]
            ELSE IF takes_value(matchedArg)
            THEN (IF hasDelim
                  THEN set_arg_value(matchedArg, SubStrFrom(arg, found + 1),
                                     st, safe)
                  ELSE next_value(matchedArg, av, st, safe))
            ELSE IF hasDelim
            THEN [st EXCEPT !.err = Raise("argument_no_value", <<matchedArg>>, 0)]
            ELSE set(matchedArg, st)
        Named(arg, found, hasDelim, name) ==
            Matched(arg, found, hasDelim, name,
                    findArg(argSets, ByName(name), st))
        Split(arg, found, hasDelim) ==
            Named(arg, found, hasDelim,
                  IF hasDelim
                  THEN SubStr(arg, Len(nameStart), found - Len(nameStart))
                  ELSE SubStrFrom(arg, Len(nameStart)))
        Delim(arg, found) == Split(arg, found, found # npos /\ found # 0)
    IN  Delim(av[st.it], Find(av[st.it], nameDelim))

\* A scan that would look at the first flag of a cluster only
flag_loop_first(argSets, arg, flagIndex, st) ==
    LET Matched(matchedArg) ==
            IF matchedArg = Null
            THEN [st |-> [st EXCEPT !.err = Raise("unknown_argument",
                                                 <<<<arg[flagIndex + 1]>>>>, 0)],
                  matchedArg |-> Null, flagIndex |-> flagIndex]
            ELSE IF takes_value(matchedArg)
            THEN [st |-> st, matchedArg |-> matchedArg,
                  flagIndex |-> flagIndex + 1]
            ELSE [st |-> set(matchedArg, st), matchedArg |-> Null,
                  flagIndex |-> Len(arg)]
    IN  IF flagIndex >= Len(arg)
        THEN [st |-> st, matchedArg |-> Null, flagIndex |-> flagIndex]
        ELSE Matched(findArg(argSets, ByFlag(arg[flagIndex + 1]), st))

\* The flag branch of parse: the for loop from flagIndex (0-based) on.  The
\* result is the state with the argument that ended the scan and the index
\* after it, or with the exception raised.
RECURSIVE flag_loop(_, _, _, _)
flag_loop(argSets, arg, flagIndex, st) ==
    LET After(st1) ==
            IF Failed(st1)
            THEN [st |-> st1, matchedArg |-> Null, flagIndex |-> flagIndex]
            ELSE flag_loop(argSets, arg, flagIndex + 1, st1)
        Matched(matchedArg) ==
            IF matchedArg = Null
            THEN [st |-> [st EXCEPT !.err = Raise("unknown_argument",
                                                 <<<<arg[flagIndex + 1]>>>>, 0)],
                  matchedArg |-> Null, flagIndex |-> flagIndex]
            ELSE IF takes_value(matchedArg)
            THEN [st |-> st, matchedArg |-> matchedArg,
                  flagIndex |-> flagIndex + 1]
            ELSE After(set(matchedArg, st))
    IN  IF flagIndex >= Len(arg)
        THEN [st |-> st, matchedArg |-> Null, flagIndex |-> flagIndex]
        ELSE Matched(findArg(argSets, ByFlag(arg[flagIndex + 1]), st))

\* A flag branch that would undo its own increments when it throws
parse_flags_undo(argSets, av, st, safe) ==
    LET Undo(st1) == IF Failed(st1) THEN [st EXCEPT !.err = st1.err] ELSE st1
        Scanned(arg, r) ==
            IF Failed(r.st) \/ r.matchedArg = Null THEN r.st
            ELSE IF r.flagIndex < Len(arg)
            THEN set_arg_value(r.matchedArg, SubStrFrom(arg, r.flagIndex),
                               r.st, safe)
            ELSE next_value(r.matchedArg, av, r.st, safe)
    IN  Undo(Scanned(av[st.it],
                     flag_loop(argSets, av[st.it], Len(flagStart), st)))

\* A flag branch that would always take the next token as the value
parse_flags_next(argSets, av, st, safe) ==
    LET Scanned(arg, r) ==
            IF Failed(r.st) \/ r.matchedArg = Null THEN r.st
            ELSE next_value(r.matchedArg, av, r.st, safe)
    IN  Scanned(av[st.it], flag_loop(argSets, av[st.it], Len(flagStart), st))

\* The flag branch of parse, after the scan: the value of the argument that
\* ended it
parse_flags(argSets, av, st, safe) ==
    LET Scanned(arg, r) ==
            IF Failed(r.st) \/ r.matchedArg = Null THEN r.st
            ELSE IF r.flagIndex < Len(arg)
            THEN set_arg_value(r.matchedArg, SubStrFrom(arg, r.flagIndex),
                               r.st, safe)
            ELSE next_value(r.matchedArg, av, r.st, safe)
    IN  Scanned(av[st.it], flag_loop(argSets, av[st.it], Len(flagStart), st))

\* The positional branch of parse
parse_positional(argSets, av, st, safe) ==
    LET Matched(matchedArg) ==
            IF matchedArg = Null
            THEN [st EXCEPT !.err = Raise("unknown_argument", <<>>, 0)]
            ELSE IF takes_value(matchedArg)
            THEN set_arg_value(matchedArg, av[st.it], st, safe)
            ELSE set(matchedArg, st)
    IN  Matched(findArg(argSets, Positional, st))

\* ++it, unless an exception left the loop
\* A loop increment that would leave the iterator where it is
advance_stay(st) == st

advance(st) == IF Failed(st) THEN st ELSE [st EXCEPT !.it = @ + 1]

\* One turn of the for loop of parse: the token at it, then ++it
parse_token(argSets, av, st, safe) ==
    advance(IF IsSkip(av[st.it]) THEN [st EXCEPT !.noParse = TRUE]
            ELSE IF IsNamed(av[st.it], st.noParse)
            THEN parse_named(argSets, av, st, safe)
            ELSE IF IsFlags(av[st.it], st.noParse)
            THEN parse_flags(argSets, av, st, safe)
            ELSE parse_positional(argSets, av, st, safe))

\* The validation walk of parse: every argument set in order, then the
\* constraints; the first exception ends it
RECURSIVE validate_sets(_, _)
validate_sets(argSets, st) ==
    LET Checked(e) ==
            IF e.kind # "none" THEN e ELSE validate_sets(Tail(argSets), st)
    IN  IF argSets = <<>> THEN NoErr
        ELSE Checked(check_valid(Head(argSets), st))

\* A validation walk that would stop after the argument sets
parse_validate_sets(argSets, constraints, st) == validate_sets(argSets, st)

\* A validation walk that would visit the constraints before the sets
parse_validate_constraints(argSets, constraints, st) ==
    LET Checked(e) ==
            IF e.kind # "none" THEN e ELSE validate_sets(argSets, st)
    IN  Checked(check_valid(constraints, st))

parse_validate(argSets, constraints, st) ==
    LET Checked(e) ==
            IF e.kind # "none" THEN e ELSE check_valid(constraints, st)
    IN  Checked(validate_sets(argSets, st))

\* parse(argv): the for loop to its end, then the validation walk
RECURSIVE parse_loop(_, _, _, _)
parse_loop(argSets, av, st, safe) ==
    IF Failed(st) \/ st.it > Len(av) THEN st
    ELSE parse_loop(argSets, av, parse_token(argSets, av, st, safe), safe)

\* A parse that would start every counter from zero
parse_reset(argSets, constraints, av, st, safe) ==
    LET Walk(st1) ==
            IF Failed(st1) THEN st1
            ELSE [st1 EXCEPT !.err = parse_validate(argSets, constraints, st1)]
    IN  Walk(parse_loop(argSets, av,
                        [st EXCEPT !.it = 1, !.noParse = FALSE,
                                   !.count = [c \in DOMAIN st.count |-> 0]],
                        safe))

parse(argSets, constraints, av, st, safe) ==
    LET Walk(st1) ==
            IF Failed(st1) THEN st1
            ELSE [st1 EXCEPT !.err = parse_validate(argSets, constraints, st1)]
    IN  Walk(parse_loop(argSets, av,
                        [st EXCEPT !.it = 1, !.noParse = FALSE], safe))

\* basic_argument_parser(args...), add(argSet), addConstraint(constr)
NewParser(arguments) ==
    [m_argSets     |-> <<ArgumentSet(<<"arguments">>, arguments)>>,
     m_constraints |-> ArgumentSet(<<"Constraints">>, <<>>)]

parser_add(p, argSet) == [p EXCEPT !.m_argSets = Append(@, argSet)]

addConstraint(p, constr) ==
    [p EXCEPT !.m_constraints = add(@, constr)]

-----------------------------------------------------------------------------
(* The programs explored: what the caller declares and builds before it   *)
(* calls the library.                                                      *)

ArgA == NewArgument("a", "basic", "none", FALSE, <<"a">>, <<>>, 1)
ArgB == NewArgument("b", "basic", "none", FALSE, <<"b">>, <<>>, 2)
ArgC == NewArgument("c", "variable", "string", FALSE, <<"c">>, <<<<"n", "m">>>>, 3)
ArgP == NewArgument("p", "variable", "string", FALSE, <<>>, <<>>, 4)
ArgD == NewArgument("d", "basic", "none", FALSE, <<"a">>, <<>>, 5)
ArgQ == NewArgument("q", "variable", "string", FALSE, <<>>, <<>>, 5)
ArgE == NewArgument("e", "basic", "none", FALSE, <<"e">>, <<>>, 3)
ArgV == NewArgument("v", "variable", "int", FALSE, <<"v">>, <<>>, 1)
ArgW == NewArgument("w", "variable", "string", FALSE, <<"w">>, <<>>, 2)

DefaultInt == 2

Program(hs, p) == [handles |-> hs, parser |-> p]

\* Programs around a parser, for parse
ParserPrograms ==
    LET flat == <<ArgA, ArgB, ArgC, ArgP>>
    IN  << Program(flat, NewParser(flat)),
           Program(flat, addConstraint(NewParser(flat),
                             Constraint("One", <<ArgA, ArgB>>))),
           Program(flat, addConstraint(NewParser(flat),
                             set_required(Constraint("One", <<ArgA, ArgB>>), TRUE))),
           Program(flat, NewParser(<<Constraint("One", <<ArgA, ArgB>>),
                                     ArgC, ArgP>>)),
           Program(flat, NewParser(
                     <<set_required(Constraint("One", <<ArgA, ArgB>>), TRUE),
                       ArgC, ArgP>>)),
           Program(<<set_required(ArgA, TRUE), ArgB, ArgC, ArgP>>,
                   NewParser(<<Constraint("One",
                                   <<set_required(ArgA, TRUE), ArgB>>),
                               ArgC, ArgP>>)),
           Program(<<ArgA, set_required(ArgB, TRUE), ArgC, ArgP>>,
                   NewParser(<<Constraint("Imp",
                                   <<ArgA, set_required(ArgB, TRUE)>>),
                               ArgC, ArgP>>)),
           Program(<<ArgA, ArgB, ArgC, ArgP, ArgD>>,
                   parser_add(NewParser(<<ArgA, ArgB, ArgP>>),
                              ArgumentSet(<<"extra">>, <<ArgD, ArgC>>))),
           Program(<<many(ArgA, TRUE), max(ArgB, 2), set_required(ArgC, TRUE),
                     many(ArgP, TRUE)>>,
                   NewParser(<<many(ArgA, TRUE), max(ArgB, 2),
                               set_required(ArgC, TRUE), many(ArgP, TRUE)>>)),
           Program(<<ArgA, ArgB, ArgC, ArgP, many(ArgQ, TRUE)>>,
                   NewParser(<<ArgA, ArgP, many(ArgQ, TRUE)>>)),
           Program(flat, addConstraint(NewParser(<<ArgA, ArgP>>),
                             Constraint("One", <<ArgA, ArgB>>))),
           Program(flat, addConstraint(NewParser(flat),
                             Constraint("Imp",
                                 <<Constraint("One", <<ArgA, ArgB>>), ArgC>>))) >>

\* Programs around constraint nodes over plain flags, for direct calls
CallPrograms ==
    LET two   == <<ArgA, ArgB>>
        three == <<ArgA, ArgB, ArgE>>
    IN  << Program(two, addConstraint(NewParser(<<>>),
                            Constraint("One", two))),
           Program(two, addConstraint(NewParser(two),
                            Constraint("Imp", two))),
           Program(three, addConstraint(NewParser(<<ArgA>>),
                            Constraint("One",
                                <<ArgA, Constraint("Imp", <<ArgB, ArgE>>)>>))),
           Program(three, NewParser(
                            <<Constraint("One",
                                <<Constraint("Any", <<ArgA, ArgB>>), ArgE>>)>>)),
           Program(<<ArgA>>, NewParser(<<ArgA>>)) >>

\* Programs around value-typed arguments, for set(token)
ValuePrograms ==
    << Program(<<ArgV, ArgW>>, NewParser(<<ArgV, ArgW>>)) >>

\* The storage cells as the constructors leave them: the int default, an
\* empty string or an empty vector, and for a switch false (new bool()) or
\* what the caller's external variable holds
InitialValue(hs) ==
    LET Holds(i, c) == IsArg(hs[i]) /\ hs[i].m_storage = c
    IN  [c \in Cells |->
            IF \E i \in 1..Len(hs) : /\ Holds(i, c)
                                      /\ hs[i].vtype = "int"
                                      /\ ~hs[i].multi
            THEN DefaultInt
            ELSE IF \E i \in 1..Len(hs) : Holds(i, c) /\ hs[i].vtype = "bool"
            THEN (\E i \in 1..Len(hs) : /\ Holds(i, c)
                                         /\ "m_initial" \in DOMAIN hs[i]
                                         /\ hs[i].m_initial)
            ELSE <<>>]

-----------------------------------------------------------------------------
(* Inputs *)

Tok_a    == <<"-", "a">>
Tok_b    == <<"-", "b">>
Tok_ab   == <<"-", "a", "b">>
Tok_bcV  == <<"-", "b", "c", "V">>
Tok_c    == <<"-", "c">>
Tok_skip == <<"-", "-">>
Tok_V    == <<"V">>
Tok_nmV  == <<"-", "-", "n", "m", "=", "V">>
Tok_nm   == <<"-", "-", "n", "m">>
Tok_none == <<>>

\* The tokens of parse; flag b comes in through the clusters
Tokens == {Tok_a, Tok_ab, Tok_bcV, Tok_c, Tok_skip, Tok_V, Tok_nmV, Tok_nm,
           Tok_none}

FlagTokens == {Tok_a, Tok_b, Tok_ab}

ValueTokens == {<<"7">>, <<"x">>, <<"7", "x">>, <<" ", "1", "2">>, <<>>}

SeqsUpTo(S, n) == UNION {[1..k -> S] : k \in 0..n}

Argvs == SeqsUpTo(Tokens, MaxArgc)

Range(f) == {f[i] : i \in DOMAIN f}

-----------------------------------------------------------------------------
(* The state machine *)

NoOp == [name |-> "none", tok |-> <<>>, node |-> Null]

Op(name, tok, node) == [name |-> name, tok |-> tok, node |-> node]

InitWith(programs, safes) ==
    \E k \in 1..Len(programs), safe \in safes :
        /\ streamsafe = safe
        /\ handles = programs[k].handles
        /\ m_argSets = programs[k].parser.m_argSets
        /\ m_constraints = programs[k].parser.m_constraints
        /\ count = [c \in Cells |-> 0]
        /\ value = InitialValue(programs[k].handles)
        /\ argv = <<>>
        /\ it = 1
        /\ noParse = FALSE
        /\ phase = "idle"
        /\ err = NoErr
        /\ log = <<>>
        /\ op = NoOp

\* The world an operation starts in
Here == [count |-> count, value |-> value, err |-> NoErr, log |-> <<>>,
         it |-> it, noParse |-> noParse]

Program_vars == <<streamsafe, handles, m_argSets, m_constraints>>

\* parse(argv) is entered
StartParse ==
    /\ phase = "idle"
    /\ \E av \in Argvs : argv' = av
    /\ it' = 1
    /\ noParse' = FALSE
    /\ phase' = "parsing"
    /\ err' = NoErr
    /\ log' = <<>>
    /\ op' = Op("StartParse", <<>>, Null)
    /\ UNCHANGED <<Program_vars, count, value>>

\* One turn of the for loop of parse has run
Turn(name, st1) ==
    /\ count' = st1.count
    /\ value' = st1.value
    /\ it' = st1.it
    /\ noParse' = st1.noParse
    /\ err' = st1.err
    /\ log' = st1.log
    /\ phase' = IF Failed(st1) THEN "failed" ELSE "parsing"
    /\ op' = Op(name, argv[it], Null)
    /\ UNCHANGED <<Program_vars, argv>>

InLoop == phase = "parsing" /\ it <= Len(argv)

ParseSkip ==
    /\ InLoop
    /\ IsSkip(argv[it])
    /\ Turn("ParseSkip", advance([Here EXCEPT !.noParse = TRUE]))

ParseNamed ==
    /\ InLoop
    /\ ~IsSkip(argv[it])
    /\ IsNamed(argv[it], noParse)
    /\ Turn("ParseNamed",
            advance(parse_named(m_argSets, argv, Here, streamsafe)))

ParseFlags ==
    /\ InLoop
    /\ ~IsSkip(argv[it])
    /\ ~IsNamed(argv[it], noParse)
    /\ IsFlags(argv[it], noParse)
    /\ Turn("ParseFlags",
            advance(parse_flags(m_argSets, argv, Here, streamsafe)))

ParsePositional ==
    /\ InLoop
    /\ ~IsSkip(argv[it])
    /\ ~IsNamed(argv[it], noParse)
    /\ ~IsFlags(argv[it], noParse)
    /\ Turn("ParsePositional",
            advance(parse_positional(m_argSets, argv, Here, streamsafe)))

\* The for loop of parse is over: the validation walk, and parse returns
Validate ==
    /\ phase = "parsing"
    /\ it > Len(argv)
    /\ err' = parse_validate(m_argSets, m_constraints, Here)
    /\ phase' = IF err'.kind # "none" THEN "failed" ELSE "done"
    /\ log' = <<>>
    /\ op' = Op("Validate", <<>>, Null)
    /\ UNCHANGED <<Program_vars, count, value, argv, it, noParse>>

Next == \/ StartParse
        \/ ParseSkip
        \/ ParseNamed
        \/ ParseFlags
        \/ ParsePositional
        \/ Validate

Init == InitWith(ParserPrograms, BOOLEAN)

Spec == Init /\ [][Next]_vars

-----------------------------------------------------------------------------
(* Direct calls: the caller uses the objects itself, set() and             *)
(* check_valid() on any copy, the mutators on its own first handle, and    *)
(* parse() as one call.                                                    *)

\* Every node of the tree below n, n included
RECURSIVE Subnodes(_)
Subnodes(n) ==
    IF IsArg(n) THEN {n}
    ELSE {n} \cup UNION {Subnodes(n.m_args[i]) : i \in 1..Len(n.m_args)}

\* Every object the program holds: the caller's handles and the nodes stored
\* in the parser
Nodes ==
    Range(handles) \cup Subnodes(m_constraints)
                   \cup UNION {Subnodes(m_argSets[i]) : i \in 1..Len(m_argSets)}

Copies == {n \in Nodes : IsArg(n)}

\* A call has returned or thrown: what it left behind
Returned(name, tok, node, st1) ==
    /\ count' = st1.count
    /\ value' = st1.value
    /\ it' = st1.it
    /\ noParse' = st1.noParse
    /\ err' = st1.err
    /\ log' = st1.log
    /\ op' = Op(name, tok, node)

\* set() on one copy
CallSet ==
    \E n \in Copies :
        /\ count[n.m_count] < MaxCount
        /\ Returned("CallSet", <<>>, n, set(n, Here))
        /\ UNCHANGED <<Program_vars, argv, phase>>

\* check_valid() on one node
CallCheckValid ==
    \E n \in Nodes :
        /\ err' = check_valid(n, Here)
        /\ log' = <<>>
        /\ op' = Op("CallCheckValid", <<>>, n)
        /\ UNCHANGED <<Program_vars, count, value, argv, it, noParse, phase>>

\* parse(argv) on a one-token vector, from its entry to its return or throw
CallParse ==
    \E tok \in FlagTokens :
        /\ \A c \in Cells : count[c] < MaxCount
        /\ argv' = <<tok>>
        /\ Returned("CallParse", tok, Null,
                    parse(m_argSets, m_constraints, <<tok>>, Here, streamsafe))
        /\ UNCHANGED <<Program_vars, phase>>

\* The numbers handed to min() and max()
CountInputs == {0, 1, 2}

\* What the stored nodes would be if a copy shared every member with the
\* handle it was made from
RECURSIVE Rewritten(_, _)
Rewritten(n, a) ==
    IF IsArg(n)
    THEN (IF n.description = a.description THEN a ELSE n)
    ELSE [n EXCEPT !.m_args = [i \in 1..Len(n.m_args) |->
                                   Rewritten(n.m_args[i], a)]]

\* A mutator that would reach the stored copies
Mutated_shared(name, a, e) ==
    /\ handles' = [handles EXCEPT ![1] = a]
    /\ m_argSets' = [i \in 1..Len(m_argSets) |-> Rewritten(m_argSets[i], a)]
    /\ m_constraints' = Rewritten(m_constraints, a)
    /\ err' = e
    /\ log' = <<>>
    /\ op' = Op(name, <<>>, a)
    /\ UNCHANGED <<streamsafe, count, value, argv, it, noParse, phase>>

\* A mutator on the caller's first handle
Mutated(name, a, e) ==
    /\ handles' = [handles EXCEPT ![1] = a]
    /\ err' = e
    /\ log' = <<>>
    /\ op' = Op(name, <<>>, a)
    /\ UNCHANGED <<streamsafe, m_argSets, m_constraints, count, value, argv,
                   it, noParse, phase>>

CallMin ==
    \E n \in CountInputs :
        Mutated("CallMin", min(handles[1], n),
                IF n = 0 THEN Raise("logic_error", <<handles[1]>>, 0) ELSE NoErr)

CallMax ==
    \E n \in CountInputs : Mutated("CallMax", max(handles[1], n), NoErr)

CallMany ==
    \E b \in BOOLEAN : Mutated("CallMany", many(handles[1], b), NoErr)

CallSetRequired ==
    \E b \in BOOLEAN :
        Mutated("CallSetRequired", set_required(handles[1], b), NoErr)

NextCalls == \/ CallSet
             \/ CallCheckValid
             \/ CallParse
             \/ CallMin
             \/ CallMax
             \/ CallMany
             \/ CallSetRequired

InitCalls == InitWith(CallPrograms, {FALSE})

SpecCalls == InitCalls /\ [][NextCalls]_vars

-----------------------------------------------------------------------------
(* Value arguments: set(token) on the caller's handles, under either build *)

CallSetValue ==
    \E h \in 1..Len(handles), tok \in ValueTokens :
        /\ count[handles[h].m_count] < MaxCount
        /\ handles[h].multi => Len(value[handles[h].m_storage]) < MaxCount
        /\ Returned("CallSetValue", tok, handles[h],
                    variable_set(handles[h], tok, Here, streamsafe))
        /\ UNCHANGED <<Program_vars, argv, phase>>

NextValue == CallSetValue

InitValue == InitWith(ValuePrograms, BOOLEAN)

SpecValue == InitValue /\ [][NextValue]_vars

-----------------------------------------------------------------------------
(* Named options: parse, token by token, over programs that declare named  *)
(* arguments and over vectors of named tokens and their values.            *)

ArgH == NewArgument("h", "basic", "none", FALSE, <<"h">>, <<<<"q">>>>, 1)
ArgI == NewArgument("i", "variable", "int", FALSE, <<>>, <<<<"n", "m">>>>, 3)

\* Programs around named arguments; in the third, c is only in a constraint;
\* in the fourth, h has to occur twice
NamedPrograms ==
    << Program(<<ArgH, ArgC>>, NewParser(<<ArgH, ArgC>>)),
       Program(<<ArgH, ArgI>>, NewParser(<<ArgH, ArgI>>)),
       Program(<<ArgH, ArgC>>, addConstraint(NewParser(<<ArgH>>),
                                   Constraint("Imp", <<ArgH, ArgC>>))),
       Program(<<min(ArgH, 2), ArgC>>, NewParser(<<min(ArgH, 2), ArgC>>)) >>

Tok_nmE == <<"-", "-", "n", "m", "=">>
Tok_q   == <<"-", "-", "q">>
Tok_qV  == <<"-", "-", "q", "=", "V">>
Tok_z   == <<"-", "-", "z">>
Tok_7   == <<"7">>
Tok_hc  == <<"-", "h", "c">>

NamedTokens == {Tok_nmV, Tok_nmE, Tok_nm, Tok_q, Tok_qV, Tok_z, Tok_V, Tok_7,
                Tok_none, Tok_hc, Tok_skip}

NamedArgvs == SeqsUpTo(NamedTokens, MaxArgc)

\* parse(argv) is entered with a vector of named tokens
StartNamed ==
    /\ phase = "idle"
    /\ \E av \in NamedArgvs : argv' = av
    /\ it' = 1
    /\ noParse' = FALSE
    /\ phase' = "parsing"
    /\ err' = NoErr
    /\ log' = <<>>
    /\ op' = Op("StartParse", <<>>, Null)
    /\ UNCHANGED <<Program_vars, count, value>>

NextNamed == \/ StartNamed
             \/ ParseSkip
             \/ ParseNamed
             \/ ParseFlags
             \/ ParsePositional
             \/ Validate

InitNamed == InitWith(NamedPrograms, BOOLEAN)

SpecNamed == InitNamed /\ [][NextNamed]_vars

-----------------------------------------------------------------------------
(* The loop of parse, token by token, under the fairness its sequential    *)
(* code gives: once entered, parse runs on to its return or its throw.     *)

LoopPrograms ==
    << Program(<<ArgH, ArgI, ArgP>>, NewParser(<<ArgH, ArgI, ArgP>>)) >>

Tok_h == <<"-", "h">>

LoopTokens == {Tok_nm, Tok_7, Tok_h, Tok_skip}

LoopArgvs == SeqsUpTo(LoopTokens, MaxArgc)

\* parse(argv) is entered
StartLoop ==
    /\ phase = "idle"
    /\ \E av \in LoopArgvs : argv' = av
    /\ it' = 1
    /\ noParse' = FALSE
    /\ phase' = "parsing"
    /\ err' = NoErr
    /\ log' = <<>>
    /\ op' = Op("StartParse", <<>>, Null)
    /\ UNCHANGED <<Program_vars, count, value>>

\* A turn of the for loop, or the validation walk after it
ParseStep == \/ ParseSkip
             \/ ParseNamed
             \/ ParseFlags
             \/ ParsePositional
             \/ Validate

NextLoop == StartLoop \/ ParseStep

InitLoop == InitWith(LoopPrograms, BOOLEAN)

SpecLoop == InitLoop /\ [][NextLoop]_vars /\ WF_vars(ParseStep)

-----------------------------------------------------------------------------
(* Positional values: parse, token by token, over programs that declare    *)
(* two positional arguments p and q in this order.                         *)

PositionalPrograms ==
    << Program(<<many(ArgP, TRUE), many(ArgQ, TRUE)>>,
               NewParser(<<many(ArgP, TRUE), many(ArgQ, TRUE)>>)),
       Program(<<many(ArgP, TRUE), ArgQ>>,
               NewParser(<<many(ArgP, TRUE), ArgQ>>)),
       Program(<<ArgP, many(ArgQ, TRUE)>>,
               NewParser(<<ArgP, many(ArgQ, TRUE)>>)),
       Program(<<max(ArgP, 2), max(ArgQ, 2)>>,
               NewParser(<<max(ArgP, 2), max(ArgQ, 2)>>)),
       Program(<<ArgP, ArgQ>>, NewParser(<<ArgP, ArgQ>>)) >>

PositionalTokens == {Tok_V, Tok_7, Tok_none}

PositionalArgvs == SeqsUpTo(PositionalTokens, MaxArgc)

\* parse(argv) is entered with a vector of positional tokens
StartPositional ==
    /\ phase = "idle"
    /\ \E av \in PositionalArgvs : argv' = av
    /\ it' = 1
    /\ noParse' = FALSE
    /\ phase' = "parsing"
    /\ err' = NoErr
    /\ log' = <<>>
    /\ op' = Op("StartParse", <<>>, Null)
    /\ UNCHANGED <<Program_vars, count, value>>

NextPositional == \/ StartPositional
                  \/ ParsePositional
                  \/ Validate

InitPositional == InitWith(PositionalPrograms, BOOLEAN)

SpecPositional == InitPositional /\ [][NextPositional]_vars

-----------------------------------------------------------------------------
(* Nodes and switches: set() on any copy and check_valid() on any node,    *)
(* over programs that nest constraints and programs of switch arguments.   *)

\* basic_switch_argument: a typed argument over a bool, stored in a new
\* bool() or in the caller's variable, whose value then is the initial one
NewSwitch(description, flags, cell, storage) ==
    NewArgument(description, "switch", "bool", FALSE, flags, <<>>, cell)
        @@ [m_initial |-> storage]

ArgS == NewSwitch("s", <<"s">>, 1, FALSE)
ArgT == NewSwitch("t", <<"t">>, 2, TRUE)
ArgU == NewSwitch("u", <<"u">>, 3, FALSE)

CheckPrograms ==
    LET three    == <<ArgA, ArgB, ArgE>>
        four     == <<ArgA, ArgB, ArgE, ArgD>>
        switches == <<many(ArgS, TRUE), check(ArgT, "pass"),
                      check(many(ArgU, TRUE), "throw")>>
    IN  << Program(switches, NewParser(switches)),
           Program(three, addConstraint(NewParser(three),
                              Constraint("Imp", three))),
           Program(three, addConstraint(NewParser(three),
                              Constraint("Imp",
                                  <<ArgA, Constraint("One", <<ArgB, ArgE>>)>>))),
           Program(four, NewParser(
                     <<set_required(ArgA, TRUE), ArgB,
                       set_required(Constraint("Imp", <<ArgE, ArgD>>), TRUE)>>)),
           Program(three, NewParser(
                     <<ArgA,
                       set_required(Constraint("One", <<ArgB, ArgE>>), TRUE)>>)),
           Program(<<check(ArgA, "pass"), check(ArgB, "throw"), ArgE>>,
                   NewParser(<<check(ArgA, "pass"), check(ArgB, "throw"),
                               ArgE>>)) >>

NextChecks == \/ CallSet
              \/ CallCheckValid

InitChecks == InitWith(CheckPrograms, {FALSE})

SpecChecks == InitChecks /\ [][NextChecks]_vars

-----------------------------------------------------------------------------
(* Typed arguments with check callbacks and multi-mode arguments:          *)
(* set(token) on the caller's handles, under either build.                 *)

ArgM == NewArgument("m", "variable", "int", TRUE, <<"m">>, <<>>, 1)
ArgL == NewArgument("l", "variable", "string", TRUE, <<"l">>, <<>>, 2)

TypedPrograms ==
    << Program(<<check(ArgV, "pass"), check(ArgW, "pass")>>,
               NewParser(<<check(ArgV, "pass"), check(ArgW, "pass")>>)),
       Program(<<check(ArgV, "throw"), ArgW>>,
               NewParser(<<check(ArgV, "throw"), ArgW>>)),
       Program(<<ArgM, check(ArgL, "pass")>>,
               NewParser(<<ArgM, check(ArgL, "pass")>>)),
       Program(<<check(ArgM, "throw"), ArgL>>,
               NewParser(<<check(ArgM, "throw"), ArgL>>)) >>

NextTyped == CallSetValue

InitTyped == InitWith(TypedPrograms, BOOLEAN)

SpecTyped == InitTyped /\ [][NextTyped]_vars

-----------------------------------------------------------------------------
(* Copies: the caller changes its own handle after the argument was added, *)
(* and goes on using the parser and the stored nodes.                      *)

CopyPrograms ==
    LET two == <<ArgA, ArgB>>
    IN  << Program(two, addConstraint(NewParser(two), Constraint("One", two))) >>

\* alias(flag) on the caller's first handle
CallAlias ==
    /\ ~matchesFlag(handles[1], "e")
    /\ Mutated("CallAlias", alias(handles[1], "e"), NoErr)

\* check(callback) on the caller's first handle
CallCheck ==
    \E f \in {"null", "pass", "throw"} :
        Mutated("CallCheck", check(handles[1], f), NoErr)

NextCopies == \/ CallSet
              \/ CallCheckValid
              \/ CallParse
              \/ CallMin
              \/ CallMax
              \/ CallMany
              \/ CallSetRequired
              \/ CallAlias
              \/ CallCheck

InitCopies == InitWith(CopyPrograms, {FALSE})

SpecCopies == InitCopies /\ [][NextCopies]_vars

-----------------------------------------------------------------------------
(* Usage: the caller holds a constraint node, its last handle, adds its    *)
(* other handles to it one at a time and asks for usage() in between.      *)

MaxChildren == 2

UsagePrograms ==
    LET two == <<ArgA, ArgB>>
        With(node) == Program(Append(two, node), NewParser(two))
    IN  << With(NewConstraint("Any")),
           With(NewConstraint("One")),
           With(Constraint("Imp", <<Constraint("One", two)>>)) >>

UsageNode == handles[Len(handles)]

Replaced(name, tok, node) ==
    /\ handles' = [handles EXCEPT ![Len(handles)] = node]
    /\ err' = NoErr
    /\ log' = <<>>
    /\ op' = Op(name, tok, node)
    /\ UNCHANGED <<streamsafe, m_argSets, m_constraints, count, value,
                   argv, it, noParse, phase>>

\* add(arg) on the node, with one of the caller's other handles
CallAdd ==
    \E h \in 1..(Len(handles) - 1) :
        /\ Len(UsageNode.m_args) < MaxChildren
        /\ Replaced("CallAdd", <<>>, add(UsageNode, handles[h]))

\* set_required() on the node
CallRequireNode ==
    \E b \in BOOLEAN :
        Replaced("CallRequireNode", <<>>, set_required(UsageNode, b))

\* usage() on the node; the string it returns is kept with the call
CallUsage == Replaced("CallUsage", usage(UsageNode), UsageNode)

NextUsage == \/ CallAdd
             \/ CallUsage
             \/ CallRequireNode
             \/ CallSetRequired
             \/ CallSet

InitUsage == InitWith(UsagePrograms, {FALSE})

SpecUsage == InitUsage /\ [][NextUsage]_vars

-----------------------------------------------------------------------------
(* All-or-none nodes: the caller holds the arguments and the nodes built   *)
(* from them, sets arguments and calls check_valid() on any of them.       *)

AllPrograms ==
    LET two == <<ArgA, ArgB>>
        Hold(hs, nodes) == Program(hs \o nodes, NewParser(hs))
    IN  << Hold(two, <<Constraint("All", two)>>),
           Hold(two, <<set_required(Constraint("All", two), TRUE)>>),
           Hold(<<ArgA, ArgB, ArgE>>,
                <<set_required(Constraint("All",
                      <<ArgA, ArgB, Constraint("All", <<ArgE>>)>>), TRUE),
                  set_required(Constraint("All", <<ArgE>>), TRUE)>>),
           Hold(<<many(ArgA, TRUE), ArgB>>,
                <<Constraint("All", <<many(ArgA, TRUE), ArgB>>),
                  Constraint("All", <<>>)>>) >>

NextAll == CallSet \/ CallCheckValid

InitAll == InitWith(AllPrograms, {FALSE})

SpecAll == InitAll /\ [][NextAll]_vars

-----------------------------------------------------------------------------
(* Properties *)

SetMin(S) == CHOOSE i \in S : \A j \in S : i <= j
SetMax(S) == CHOOSE i \in S : \A j \in S : i >= j

\* The copies of one declared argument: those with its description
SameArgument(x, y) == x.description = y.description

SameCounts ==
    \A x, y \in Copies :
        SameArgument(x, y) => count[x.m_count] = count[y.m_count]

SetRaisesAll ==
    op'.name = "CallSet" =>
        \A x \in Copies :
            SameArgument(x, op'.node) => count'[x.m_count] = count[x.m_count] + 1

\* C1: every copy of a declared argument, the caller's handle and the clones
\* stored in argument sets and constraint nodes at any depth, reads the same
\* occurrence counter after any sequence of set() and parse() calls, and a
\* set() through any one copy raises count() on all of them by exactly one.
C1_SharedCounter == []SameCounts /\ [][SetRaisesAll]_vars

\* C1 witness: set() went through a copy of e, and the handle e and the clone
\* of e stored two levels down in the constraints both read 2.
C1_Witness ==
    /\ op.name = "CallSet"
    /\ SameArgument(op.node, ArgE)
    /\ Len(handles) = 3
    /\ count[handles[3].m_count] = 2
    /\ \E n \in Subnodes(m_constraints) :
          /\ ~IsArg(n)
          /\ n.ctype = "Imp"
          /\ \E i \in 1..Len(n.m_args) :
                /\ SameArgument(n.m_args[i], ArgE)
                /\ node_count(n.m_args[i], Here) = 2

\* The identifiers looked up: flags and names that are declared and that are
\* not, and the positional lookup
LookupIdents ==
    {ByFlag(f) : f \in {"a", "c", "x"}}
        \cup {ByName(<<"n", "m">>), ByName(<<"z">>), Positional}

\* What the lookup is to answer, over the arguments of all sets in order
LookupExpected(L, ident) ==
    LET M == {i \in 1..Len(L) : Matches(L[i], ident)}
        F == {i \in M : L[i].m_max = 0 \/ count[L[i].m_count] < L[i].m_max}
    IN  IF M = {} THEN Null
        ELSE IF F # {} THEN L[SetMin(F)]
        ELSE L[SetMax(M)]

LookupAnswers ==
    LET Answers(L) ==
            \A ident \in LookupIdents :
                findArg(m_argSets, ident, Here) = LookupExpected(L, ident)
    IN  Answers(AllArgs(m_argSets))

\* The identifier a token step could not resolve
UnknownIdent(name, who) ==
    IF name = "ParseFlags" THEN ByFlag(who[1][1])
    ELSE IF name = "ParseNamed" THEN ByName(who[1])
    ELSE Positional

UnknownOnlyUnmatched ==
    err'.kind = "unknown_argument" =>
        \A a \in Range(AllArgs(m_argSets)) :
            ~Matches(a, UnknownIdent(op'.name, err'.who))

\* C2: lookup by flag, by name or positional scans the argument sets in the
\* order added and each set's arguments in declaration order, and answers the
\* first matching argument that can still be set; if every matching one is
\* exhausted it answers the last matching one; parse raises unknown-argument
\* only when no argument of the sets matches at all.
C2_Lookup == []LookupAnswers /\ [][UnknownOnlyUnmatched]_vars

\* C2 witness: flag a is declared twice, a then d; both are exhausted, the
\* lookup has fallen back to d, the last match, and set it a second time.
C2_Witness ==
    /\ op.name = "ParseFlags"
    /\ op.tok = Tok_a
    /\ \E i, j \in 1..Len(handles) :
          /\ SameArgument(handles[i], ArgA)
          /\ SameArgument(handles[j], ArgD)
          /\ count[handles[i].m_count] = 1
          /\ count[handles[j].m_count] = 2
    /\ SameArgument(findArg(m_argSets, ByFlag("a"), Here), ArgD)

\* What the documentation of the counts lets pass
WithinCounts(a) ==
    \/ count[a.m_count] = 0 /\ ~a.m_required
    \/ /\ count[a.m_count] >= 1
       /\ count[a.m_count] >= a.m_min
       /\ (a.m_max = 0 \/ count[a.m_count] <= a.m_max)

ArgumentChecked ==
    (op'.name = "CallCheckValid" /\ IsArg(op'.node)) =>
        /\ (err'.kind = "none") <=> WithinCounts(op'.node)
        /\ err'.kind \in {"none", "argument_count_mismatch"}
        /\ (op'.node.m_required /\ count[op'.node.m_count] = 0)
               => err'.kind = "argument_count_mismatch"

\* C3: check_valid() on a declared argument succeeds iff (count = 0 and it is
\* not required) or (count >= 1, count >= min and (max = 0 or count <= max));
\* in every other case it raises occurrence-mismatch, and a required argument
\* with count 0 raises it whatever min and max are.
C3_ArgumentCheckValid == [][ArgumentChecked]_vars

\* C3 witness: check_valid() was called on a required argument with min 2 and
\* count 0, and raised occurrence-mismatch.
C3_Witness ==
    /\ op.name = "CallCheckValid"
    /\ IsArg(op.node)
    /\ op.node.m_required
    /\ op.node.m_min = 2
    /\ count[op.node.m_count] = 0
    /\ err.kind = "argument_count_mismatch"

\* C3 second case: an unbounded argument (max 0) set twice passes.
C3_WitnessUnbounded ==
    /\ op.name = "CallCheckValid"
    /\ IsArg(op.node)
    /\ op.node.m_max = 0
    /\ count[op.node.m_count] = 2
    /\ err.kind = "none"

\* The tokens that spell one value of the type and nothing else: optional
\* leading whitespace, then a signed decimal number or a word
IsNumber(s) ==
    /\ s # <<>>
    /\ LET body == IF Head(s) \in {"+", "-"} THEN Tail(s) ELSE s
       IN  body # <<>> /\ \A i \in 1..Len(body) : body[i] \in Digits

IsWord(s) == s # <<>> /\ \A i \in 1..Len(s) : s[i] \notin Whitespace

Decodable(vtype, tok) ==
    \E k \in 0..Len(tok) :
        /\ \A i \in 1..k : tok[i] \in Whitespace
        /\ IF vtype = "int" THEN IsNumber(SubSeq(tok, k + 1, Len(tok)))
           ELSE IsWord(SubSeq(tok, k + 1, Len(tok)))

SetValueCalled == op'.name = "CallSetValue" /\ ~op'.node.multi

DecodeFailed == SetValueCalled /\ ~Decodable(op'.node.vtype, op'.tok)

FailedDecodeKeepsCount ==
    /\ DecodeFailed => err'.kind = "argument_invalid_value" /\ count' = count
    /\ (SetValueCalled /\ ~DecodeFailed) => err'.kind = "none"

C4_WitnessDirect ==
    /\ ~streamsafe
    /\ op.name = "CallSetValue"
    /\ op.tok = <<"x">>
    /\ op.node.vtype = "int"
    /\ err.kind = "argument_invalid_value"
    /\ value[op.node.m_storage] = 0
    /\ count[op.node.m_count] = 1

\* The arguments as the parser holds them: the copies below its argument
\* sets and its constraints
ParserCopies ==
    {n \in Subnodes(m_constraints)
            \cup UNION {Subnodes(m_argSets[i]) : i \in 1..Len(m_argSets)} :
        IsArg(n)}

\* C5: when parse returns normally, every declared argument marked required
\* in the parser's copy has occurred at least once, wherever it sits in the
\* tree, inside exactly-one and implication nodes included.
C5_RequiredOccurred ==
    phase = "done" =>
        \A a \in ParserCopies : a.m_required => count[a.m_count] >= 1

\* C5, the case of an exactly-one node: parse has returned normally from
\* ["-bcV"] with b set and the required sibling a never seen.
C5_RequiredSkippedInOne ==
    /\ phase = "done"
    /\ argv = <<Tok_bcV>>
    /\ \E n \in Subnodes(m_argSets[1]) :
          /\ ~IsArg(n)
          /\ n.ctype = "One"
          /\ \E i \in 1..Len(n.m_args) :
                /\ IsArg(n.m_args[i])
                /\ n.m_args[i].m_required
                /\ count[n.m_args[i].m_count] = 0

\* C5, the case of an implication node: parse has returned normally from an
\* empty argument vector with the required second child never seen.
C5_RequiredSkippedInImp ==
    /\ phase = "done"
    /\ argv = <<>>
    /\ \E n \in Subnodes(m_argSets[1]) :
          /\ ~IsArg(n)
          /\ n.ctype = "Imp"
          /\ \E i \in 1..Len(n.m_args) :
                /\ IsArg(n.m_args[i])
                /\ n.m_args[i].m_required
                /\ count[n.m_args[i].m_count] = 0

\* Where the code does enforce it: a required argument that is a direct
\* child of an argument set
RequiredInSetOccurred ==
    phase = "done" =>
        \A i \in 1..Len(m_argSets) : \A j \in 1..Len(m_argSets[i].m_args) :
            LET a == m_argSets[i].m_args[j]
            IN  (IsArg(a) /\ a.m_required) => count[a.m_count] >= 1

\* check_valid() was called on an exactly-one node
OneChecked == op'.name = "CallCheckValid" /\ ~IsArg(op'.node) /\ op'.node.ctype = "One"

\* The children of n that are set, by position
SetChildren(n) == {i \in 1..Len(n.m_args) : is_set(n.m_args[i], Here)}

\* The set children of n whose own check_valid raises
FailingChildren(n) ==
    {i \in SetChildren(n) : check_valid(n.m_args[i], Here).kind # "none"}

OnePassesIffOne(n) ==
    (err'.kind = "none") <=>
        (Cardinality(SetChildren(n)) = 1 /\ FailingChildren(n) = {})

ListsAllChildren(n) == err' = Raise("constraint_error", n.m_args, 0)

\* C6, as the code has it: check_valid() on an exactly-one node passes iff
\* exactly one child is set and that child passes its own check_valid; when a
\* set child fails its own check_valid, the error of the first such child is
\* raised; otherwise, with no child set or with two or more set, it raises a
\* constraint error listing all children.
C6_OneCheckValid ==
    [][OneChecked =>
         /\ OnePassesIffOne(op'.node)
         /\ FailingChildren(op'.node) # {} =>
                err' = check_valid(
                           op'.node.m_args[SetMin(FailingChildren(op'.node))],
                           Here)
         /\ (FailingChildren(op'.node) = {}
                /\ Cardinality(SetChildren(op'.node)) # 1)
                => ListsAllChildren(op'.node)]_vars

\* C6, as stated: with no child set or with two or more children set, the
\* node raises a constraint error listing all its children.
C6_OneAlwaysListsChildren ==
    [][OneChecked =>
         /\ OnePassesIffOne(op'.node)
         /\ Cardinality(SetChildren(op'.node)) # 1
                => ListsAllChildren(op'.node)]_vars

\* C6 witness: both children of an exactly-one node are set, one of them
\* twice with max 1, and check_valid() on the node raised that child's
\* occurrence-mismatch.
C6_Witness ==
    /\ op.name = "CallCheckValid"
    /\ ~IsArg(op.node)
    /\ op.node.ctype = "One"
    /\ Cardinality(SetChildren(op.node)) = 2
    /\ FailingChildren(op.node) # {}
    /\ err.kind = "argument_count_mismatch"

\* C6, the stated cases: both children set once each, a constraint error
\* listing both.
C6_WitnessBoth ==
    /\ op.name = "CallCheckValid"
    /\ ~IsArg(op.node)
    /\ op.node.ctype = "One"
    /\ Cardinality(SetChildren(op.node)) = 2
    /\ FailingChildren(op.node) = {}
    /\ err = Raise("constraint_error", op.node.m_args, 0)

\* The nodes handed to the parser: the direct children of its argument sets
\* and of its constraints
TopNodes ==
    Range(m_constraints.m_args)
        \cup UNION {Range(m_argSets[i].m_args) : i \in 1..Len(m_argSets)}

\* The exactly-one constraints over two flags among them
OneOverTwoFlags ==
    {n \in TopNodes :
        /\ ~IsArg(n)
        /\ n.ctype = "One"
        /\ Len(n.m_args) = 2
        /\ \A i \in 1..2 : IsArg(n.m_args[i]) /\ n.m_args[i].m_flags # <<>>}

\* How many of the two flags of n have occurred
Occurring(n) == Cardinality({i \in 1..2 : count[n.m_args[i].m_count] > 0})

\* Nothing else stands in the way of the walk: no argument that occurred is
\* outside its own bounds, and every other node handed to the parser passes
NothingElseFails(n) ==
    /\ \A a \in ParserCopies :
          count[a.m_count] > 0 => argument_check_valid(a, Here).kind = "none"
    /\ \A m \in TopNodes \ {n} :
          (is_set(m, Here) \/ required(m)) => check_valid(m, Here).kind = "none"

OneConstraintDecides ==
    op'.name = "Validate" =>
        \A n \in OneOverTwoFlags :
            NothingElseFails(n) =>
                /\ (err'.kind = "none") <=>
                       IF n.m_required THEN Occurring(n) = 1
                       ELSE Occurring(n) <= 1
                /\ err'.kind \in {"none", "constraint_error"}

\* C7: for an exactly-one constraint over two flags handed to the parser and
\* not marked required, parse succeeds when neither flag or exactly one of
\* them occurs and fails with a constraint error when both occur; when the
\* constraint is marked required, parse also fails when neither occurs.
\* (Every token was processed, each flag occurs within its own bounds, and
\* nothing else handed to the parser fails.)
C7_OneInParser == [][OneConstraintDecides]_vars

\* C7 witness: a constraint marked required, no flag given, and the walk has
\* raised a constraint error.
C7_Witness ==
    /\ op.name = "Validate"
    /\ \E n \in OneOverTwoFlags :
          n.m_required /\ NothingElseFails(n) /\ Occurring(n) = 0
    /\ err.kind = "constraint_error"
    /\ phase = "failed"

\* C7, the other cases: not required and both given fails; not required and
\* none given passes.
C7_WitnessBoth ==
    /\ op.name = "Validate"
    /\ \E n \in OneOverTwoFlags :
          ~n.m_required /\ NothingElseFails(n) /\ Occurring(n) = 2
    /\ err.kind = "constraint_error"

C7_WitnessNone ==
    /\ op.name = "Validate"
    /\ \E n \in OneOverTwoFlags :
          ~n.m_required /\ NothingElseFails(n) /\ Occurring(n) = 0
    /\ phase = "done"

TokenSteps == {"ParseSkip", "ParseNamed", "ParseFlags", "ParsePositional"}

\* C8: once the end-of-options marker has been seen, every later token,
\* whatever its text (one with the flag or name prefix, or one equal to the
\* marker itself), is handled as a positional token.
C8_AfterMarkerPositional ==
    [][(noParse /\ op'.name \in TokenSteps) => op'.name = "ParsePositional"]_vars

\* C8, the case that fails: after ["--", "--"] the second marker was skipped
\* too, and the positional argument p has received nothing.
C8_SecondMarkerSkipped ==
    /\ argv = <<Tok_skip, Tok_skip>>
    /\ phase = "done"
    /\ op.name = "Validate"
    /\ \E a \in ParserCopies : a.m_isPositional
    /\ \A a \in ParserCopies : a.m_isPositional => count[a.m_count] = 0

\* What the code does keep: after the marker, a token that is not the marker
\* itself is handled as a positional token, whatever its prefix
AfterMarkerOthersPositional ==
    [][(noParse /\ op'.name \in TokenSteps /\ op'.tok # skip)
           => op'.name = "ParsePositional"]_vars

\* C8, the example: ["-a", "--", "-a"] leaves flag a with count 1 and gives
\* the positional argument the string "-a".
C8_Example ==
    /\ argv = <<Tok_a, Tok_skip, Tok_a>>
    /\ phase = "done"
    /\ \E a, p \in ParserCopies :
          /\ SameArgument(a, ArgA) /\ count[a.m_count] = 1
          /\ SameArgument(p, ArgP) /\ value[p.m_storage] = Tok_a
                                   /\ count[p.m_count] = 1

\* The characters of a flag token after the flag prefix
Cluster(tok) == SubSeq(tok, Len(flagStart) + 1, Len(tok))

\* The arguments of the sets that answer to a flag character
FlagArgs(ch) == {a \in Range(AllArgs(m_argSets)) : matchesFlag(a, ch)}

NoValueFlag(ch) ==
    FlagArgs(ch) # {} /\ \A a \in FlagArgs(ch) : ~takes_value(a)

ValueFlag(ch) ==
    FlagArgs(ch) # {} /\ \A a \in FlagArgs(ch) : takes_value(a)

\* Where the scan of a cluster ends: the first character that is not a
\* no-value flag, or one past the end
ScanEnd(cl) ==
    IF \A i \in 1..Len(cl) : NoValueFlag(cl[i]) THEN Len(cl) + 1
    ELSE SetMin({i \in 1..Len(cl) : ~NoValueFlag(cl[i])})

\* The arguments whose counter a call raised, in the order it raised them
CountEvents(lg) ==
    LET IsCount(e) == e[1] = "count"
        counts == SelectSeq(lg, IsCount)
    IN  [i \in 1..Len(counts) |-> counts[i][2]]

\* Those among them that take no value
NoValueEvents(lg) ==
    LET NoValue(d) ==
            \E a \in Range(AllArgs(m_argSets)) :
                a.description = d /\ ~takes_value(a)
    IN  SelectSeq(CountEvents(lg), NoValue)

Occurrences(s, x) == Cardinality({i \in 1..Len(s) : s[i] = x})

ClusterSetsEach ==
    op'.name = "ParseFlags" =>
        LET cl == Cluster(op'.tok)
            ev == NoValueEvents(log')
        IN  /\ Len(ev) = ScanEnd(cl) - 1
            /\ \A i \in 1..Len(ev) :
                  \E a \in FlagArgs(cl[i]) : a.description = ev[i]
            /\ \A a \in Range(AllArgs(m_argSets)) :
                  ~takes_value(a) =>
                      count'[a.m_count] - count[a.m_count]
                          = Occurrences(ev, a.description)

\* C9: in a flag-cluster token every character that resolves to an argument
\* not taking a value causes exactly one set() on that argument, in
\* left-to-right order, so a cluster of n distinct no-value flags leaves each
\* of them with count exactly 1.
C9_FlagCluster == [][ClusterSetsEach]_vars

\* C9 witness: ["-ab"] with a and b declared as no-value flags has set a, then
\* b, once each.
C9_Witness ==
    /\ op.name = "ParseFlags"
    /\ op.tok = Tok_ab
    /\ argv = <<Tok_ab>>
    /\ CountEvents(log) = <<"a", "b">>
    /\ \E a, b \in ParserCopies :
          /\ SameArgument(a, ArgA) /\ count[a.m_count] = 1
          /\ SameArgument(b, ArgB) /\ count[b.m_count] = 1
    /\ err.kind = "none"

\* The value token was taken by v: decoded into its cell, and counted once
ValueTaken(v, text) ==
    IF Decodable(v.vtype, text)
    THEN /\ err'.kind = "none"
         /\ v.vtype = "string" => value'[v.m_storage] = SkipWs(text)
         /\ count'[v.m_count] = count[v.m_count] + 1
    ELSE /\ err'.kind = "argument_invalid_value"
         /\ count'[v.m_count] = count[v.m_count]

ClusterStopsAtValue ==
    op'.name = "ParseFlags" =>
        LET cl == Cluster(op'.tok)
            k  == ScanEnd(cl)
        IN  (k <= Len(cl) /\ ValueFlag(cl[k])) =>
                /\ Len(CountEvents(log')) \in {k - 1, k}
                /\ \E v \in FlagArgs(cl[k]) :
                      IF k < Len(cl)
                      THEN /\ ValueTaken(v, SubSeq(cl, k + 1, Len(cl)))
                           /\ err'.kind = "none" => it' = it + 1
                      ELSE IF it < Len(argv)
                      THEN /\ ValueTaken(v, argv[it + 1])
                           /\ err'.kind = "none" => it' = it + 2
                      ELSE /\ err'.kind = "argument_missing_value"
                           /\ value' = value
                           /\ count'[v.m_count] = count[v.m_count]

\* C10: the flag-cluster scan stops at the first character that resolves to a
\* value-taking argument: the remaining characters of the token, if any,
\* become its value; otherwise the next whole token is consumed as its value,
\* and if there is no next token parse raises missing-value.
C10_ClusterValue == [][ClusterStopsAtValue]_vars

\* C10 witness: ["-bcV"] has set b once and given c the value "V".
C10_Witness ==
    /\ op.name = "ParseFlags"
    /\ op.tok = Tok_bcV
    /\ argv = <<Tok_bcV>>
    /\ err.kind = "none"
    /\ it = 2
    /\ \E b, c \in ParserCopies :
          /\ SameArgument(b, ArgB) /\ count[b.m_count] = 1
          /\ SameArgument(c, ArgC) /\ count[c.m_count] = 1
                                   /\ value[c.m_storage] = Tok_V

\* C10, the other cases: ["-c", "V"] takes the next token; ["-c"] raises
\* missing-value.
C10_WitnessNext ==
    /\ op.name = "ParseFlags"
    /\ argv = <<Tok_c, Tok_V>>
    /\ err.kind = "none"
    /\ it = 3
    /\ \E c \in ParserCopies :
          SameArgument(c, ArgC) /\ value[c.m_storage] = Tok_V

C10_WitnessMissing ==
    /\ op.name = "ParseFlags"
    /\ argv = <<Tok_c>>
    /\ err.kind = "argument_missing_value"
    /\ phase = "failed"


-----------------------------------------------------------------------------
\* The world parse(argv) starts in: nothing has occurred yet
Fresh == [count |-> [c \in Cells |-> 0], value |-> InitialValue(handles),
          err |-> NoErr, log |-> <<>>, it |-> 1, noParse |-> FALSE]

\* The names of the value-taking arguments the parser resolves
ValueNames ==
    UNION {Range(a.m_names) :
              a \in {x \in Range(AllArgs(m_argSets)) : takes_value(x)}}

NamedValues == {Tok_V, Tok_7, Tok_none}

Inline(n, v) == nameStart \o n \o <<nameDelim>> \o v

Finished == phase \in {"done", "failed"}

\* What parse(other) ends with is what this parse has ended with
SameOutcome(other) ==
    LET Same(r) == /\ r.count = count
                   /\ r.value = value
                   /\ r.err.kind = err.kind
    IN  Same(parse(m_argSets, m_constraints, other, Fresh, streamsafe))

InlineAsNext ==
    \A n \in ValueNames, v \in NamedValues :
        /\ (Finished /\ argv = <<Inline(n, v)>>)
               => SameOutcome(<<nameStart \o n, v>>)
        /\ (Finished /\ argv = <<nameStart \o n, v>>)
               => SameOutcome(<<Inline(n, v)>>)

\* C11: for a value-taking named argument n and a value string v, the parse
\* of ["--n=v"] ends with the same occurrence counts, the same stored values
\* and the same outcome (success, or the same kind of error) as the parse of
\* ["--n", v].
C11_InlineAsNext == InlineAsNext

\* The inline form has been parsed and has stored its value
C11_Witness ==
    /\ phase = "done"
    /\ argv = <<Tok_nmV>>
    /\ \E a \in Range(handles) :
          /\ a.m_names = <<<<"n", "m">>>>
          /\ count[a.m_count] = 1
          /\ value[a.m_storage] = Tok_V

\* The two-token form has failed on a value that does not decode
C11_WitnessInvalid ==
    /\ phase = "failed"
    /\ argv = <<Tok_nm, Tok_V>>
    /\ err.kind = "argument_invalid_value"

-----------------------------------------------------------------------------
\* Of the first k positional tokens, how many an argument of maximum m takes
TakenByFirst(k, m) == IF m = 0 \/ k < m THEN k ELSE m

\* The positional tokens taken so far: a token whose value does not decode
\* ends the parse and is not taken
PositionalTaken == IF phase = "idle" THEN 0 ELSE it - 1

PositionalInOrder(p1, p2, k, k1) ==
    /\ count[p1.m_count] = k1
    /\ count[p2.m_count] = k - k1
    /\ err.kind # "argument_invalid_value" =>
          /\ k1 > 0 => value[p1.m_storage] = argv[k1]
          /\ k > k1 => value[p2.m_storage] = argv[k]
          /\ k = k1 => value[p2.m_storage] = <<>>

PositionalOverflow ==
    PositionalInOrder(handles[1], handles[2], PositionalTaken,
                      TakenByFirst(PositionalTaken, handles[1].m_max))

\* C12: with two positional value arguments declared in the order p1, p2,
\* an unbounded p1 (max 0) takes every positional token and p2 stays unset;
\* a p1 of finite max m takes the first m positional tokens and p2 takes
\* every one after them.
C12_PositionalOverflow == PositionalOverflow

\* p1 of max 2 took two tokens, p2 the third
C12_Witness ==
    /\ phase \in {"done", "failed"}
    /\ Len(argv) = 3
    /\ it = 4
    /\ handles[1].m_max = 2
    /\ count[handles[1].m_count] = 2
    /\ count[handles[2].m_count] = 1
    /\ value[handles[2].m_storage] = argv[3]

\* An unbounded p1 took all three tokens, p2 none
C12_WitnessMany ==
    /\ phase = "done"
    /\ Len(argv) = 3
    /\ handles[1].m_max = 0
    /\ count[handles[1].m_count] = 3
    /\ count[handles[2].m_count] = 0

\* p2 took more tokens than its maximum, and the validation walk threw
C12_WitnessBeyond ==
    /\ phase = "failed"
    /\ it = 4
    /\ err.kind = "argument_count_mismatch"
    /\ handles[1].m_max = 1
    /\ handles[2].m_max = 1
    /\ count[handles[2].m_count] = 2

-----------------------------------------------------------------------------
HasInline(tok) == \E i \in 1..Len(tok) : tok[i] = nameDelim

\* The name a named token carries: what follows the prefix, up to the
\* first delimiter
RECURSIVE UpToDelim(_)
UpToDelim(s) ==
    IF s = <<>> \/ Head(s) = nameDelim THEN <<>>
    ELSE <<Head(s)>> \o UpToDelim(Tail(s))

NameOf(tok) == UpToDelim(Tail(Tail(tok)))

\* The arguments the parser holds under a name
Declared(name) == {a \in Range(AllArgs(m_argSets)) : matchesName(a, name)}

Untouched == count' = count /\ value' = value

NamedErrors(tok, D) ==
    /\ D = {} => err'.kind = "unknown_argument" /\ Untouched
    /\ \A a \in D :
          /\ (takes_value(a) /\ ~HasInline(tok) /\ it = Len(argv))
                => /\ err' = Raise("argument_missing_value", <<a>>, 0)
                   /\ Untouched
          /\ (~takes_value(a) /\ HasInline(tok))
                => /\ err' = Raise("argument_no_value", <<a>>, 0)
                   /\ Untouched

NamedTokenErrors ==
    op'.name = "ParseNamed" => NamedErrors(argv[it], Declared(NameOf(argv[it])))

\* C13: for a named token, a name that matches no declared argument raises
\* unknown-argument, a value-taking argument with neither an inline value
\* nor a following token raises missing-value, and an argument that takes no
\* value but got an inline value raises unexpected-value; in each case the
\* token leaves every occurrence counter and every stored value as it was.
C13_NamedTokenErrors == [][NamedTokenErrors]_vars

\* --q=V was rejected after --q had counted once
C13_Witness ==
    /\ phase = "failed"
    /\ argv = <<Tok_q, Tok_qV>>
    /\ op.tok = Tok_qV
    /\ err.kind = "argument_no_value"
    /\ count[ArgH.m_count] = 1

\* --nm ended the vector and its value is missing
C13_WitnessMissing ==
    /\ phase = "failed"
    /\ argv = <<Tok_nmV, Tok_nm>>
    /\ op.tok = Tok_nm
    /\ err.kind = "argument_missing_value"
    /\ count[ArgC.m_count] = 1
    /\ value[ArgC.m_storage] = Tok_V

\* --z names nothing
C13_WitnessUnknown ==
    /\ phase = "failed"
    /\ op.tok = Tok_z
    /\ err = Raise("unknown_argument", <<<<"z">>>>, 0)

-----------------------------------------------------------------------------
\* The sum of a counter heap
RECURSIVE SumCounts(_, _)
SumCounts(f, S) ==
    IF S = {} THEN 0
    ELSE LET c == CHOOSE x \in S : TRUE
         IN  f[c] + SumCounts(f, S \ {c})

\* A step of parse that ends in an exception
Throws == op'.name \in TokenSteps \cup {"Validate"} /\ err'.kind # "none"

\* The one cell a throwing step may have written: the storage a value was
\* being decoded into
DecodedInto(c) ==
    /\ err'.kind = "argument_invalid_value"
    /\ c = err'.who[1].m_storage

NoRollback ==
    Throws =>
        /\ \A c \in Cells : count'[c] >= count[c]
        /\ \A c \in Cells : value'[c] # value[c] => DecodedInto(c)
        /\ op'.name = "Validate" => count' = count
        /\ op'.name = "ParseFlags" =>
              SumCounts(count', Cells) - SumCounts(count, Cells)
                  = ScanEnd(Cluster(op'.tok)) - 1

C14_WitnessValidate ==
    /\ phase = "failed"
    /\ op.name = "Validate"
    /\ argv = <<Tok_q, Tok_q, Tok_nmV>>
    /\ count[ArgH.m_count] = 2
    /\ value[ArgC.m_storage] = Tok_V

\* The reading without the exception: a throwing step changes no value that
\* an earlier token has stored
NothingOverwritten ==
    Throws => /\ \A c \in Cells : count'[c] >= count[c]
              /\ \A c \in Cells : count[c] > 0 => value'[c] = value[c]

C14_WitnessOverwritten ==
    /\ ~streamsafe
    /\ phase = "failed"
    /\ argv = <<Tok_nm, Tok_7, Tok_nmV>>
    /\ err.kind = "argument_invalid_value"
    /\ count[ArgI.m_count] = 1
    /\ value[ArgI.m_storage] = 0

-----------------------------------------------------------------------------
MinWithinMax(a) == a.m_min <= a.m_max \/ a.m_max = 0

\* C15: after any sequence of min(n), max(n) and many(b) calls on a declared
\* argument, its minimum is at most its maximum, or its maximum is 0.
C15_MinWithinMax == \A a \in Range(handles) : MinWithinMax(a)

\* max(1) after min(2): the maximum is finite and below the minimum
C15_MaxBelowMin ==
    /\ op.name = "CallMax"
    /\ handles[1].m_min = 2
    /\ handles[1].m_max = 1

\* many(false) after min(2) and many(true): the maximum is 1, the minimum 2
C15_ManyBelowMin ==
    /\ op.name = "CallMany"
    /\ handles[1].m_min = 2
    /\ handles[1].m_max = 1

-----------------------------------------------------------------------------
StillAllowed(a) == a.m_max = 0 \/ count[a.m_count] < a.m_max

\* set() on a counts whether or not a can still be set, and a forced set()
\* leaves a count above the maximum
SetUnguarded(a) ==
    /\ count'[a.m_count] = count[a.m_count] + 1
    /\ ~can_set(a, Here) =>
          /\ count'[a.m_count] > a.m_max
          /\ check_valid(a, [Here EXCEPT !.count = count']).kind
                 = "argument_count_mismatch"

\* check_valid() on an argument set more often than its maximum
OverMaxRaises(a) ==
    (a.m_max # 0 /\ count[a.m_count] > a.m_max)
        => err'.kind = "argument_count_mismatch"

CanSetAndSet ==
    /\ \A a \in Copies : can_set(a, Here) <=> StillAllowed(a)
    /\ op'.name = "CallSet" => SetUnguarded(op'.node)
    /\ (op'.name = "CallCheckValid" /\ IsArg(op'.node))
          => OverMaxRaises(op'.node)

\* C16: can_set() is true iff max is 0 or the count is below max; set() is
\* not guarded by it, so a set() while can_set() is false still increments
\* the counter, and then check_valid() raises occurrence-mismatch.
C16_CanSetAndSet == [][CanSetAndSet]_vars

\* With the default maximum of 1, two set() calls, then check_valid() threw
C16_Witness ==
    /\ op.name = "CallCheckValid"
    /\ IsArg(op.node)
    /\ op.node.m_max = DefaultMax
    /\ count[op.node.m_count] = 2
    /\ ~can_set(op.node, Here)
    /\ err = Raise("argument_count_mismatch", <<op.node>>, DefaultMax)

\* set() was called on an argument that could not be set, and it counted
C16_WitnessForced ==
    /\ op.name = "CallSet"
    /\ op.node.m_max = 1
    /\ count[op.node.m_count] = 2

-----------------------------------------------------------------------------
Odd(n) == n % 2 = 1

Switches == {a \in Copies : a.klass = "switch"}

\* The stored bool is the initial one, inverted iff the count is odd
SwitchParity(a) == value[a.m_storage] = (a.m_initial # Odd(count[a.m_count]))

\* C17: in every state reached by set() calls, with or without a check
\* callback attached, the stored bool of a switch argument equals its initial
\* value inverted once per counted occurrence.
C17_SwitchParity == \A a \in Switches : SwitchParity(a)

\* set() on a switch whose check callback threw: counted once, not inverted
C17_CountedNotInverted ==
    /\ op.name = "CallSet"
    /\ op.node.klass = "switch"
    /\ op.node.m_checkFunc = "throw"
    /\ err.kind = "exception"
    /\ count[op.node.m_count] = 1
    /\ value[op.node.m_storage] = op.node.m_initial

\* Without a throwing callback the parity holds
C17_ParityUnlessThrown ==
    \A a \in Switches : a.m_checkFunc # "throw" => SwitchParity(a)

\* A switch stored in a variable that held true, set twice: true again
C17_WitnessToggled ==
    /\ op.name = "CallSet"
    /\ op.node.klass = "switch"
    /\ op.node.m_initial
    /\ count[op.node.m_count] = 2
    /\ value[op.node.m_storage]

-----------------------------------------------------------------------------
\* The arguments that are in a constraint of the parser and in none of its
\* argument sets
ConstraintOnly ==
    {a \in Range(find_all_arguments(m_constraints)) :
        \A b \in Range(AllArgs(m_argSets)) : ~SameArgument(a, b)}

OnlyInConstraint(ident) ==
    /\ \A b \in Range(AllArgs(m_argSets)) : ~Matches(b, ident)
    /\ \E a \in ConstraintOnly : Matches(a, ident)

\* The sets pass their own validation
SetsValid == \A i \in 1..Len(m_argSets) : check_valid(m_argSets[i], Here).kind = "none"

ConstraintOnlyUnknown ==
    /\ (op'.name = "ParseNamed" /\ OnlyInConstraint(ByName(NameOf(argv[it]))))
          => /\ err' = Raise("unknown_argument", <<NameOf(argv[it])>>, 0)
             /\ Untouched
    /\ op'.name = "ParseFlags" =>
          LET Stopped(cl, k) ==
                  (k <= Len(cl) /\ OnlyInConstraint(ByFlag(cl[k])))
                      => err' = Raise("unknown_argument", <<<<cl[k]>>>>, 0)
          IN  Stopped(Cluster(argv[it]), ScanEnd(Cluster(argv[it])))
    /\ (op'.name = "Validate" /\ SetsValid)
          => err' = check_valid(m_constraints, Here)

\* C18: the parser resolves tokens against the arguments of its argument
\* sets only: the flag or the name of an argument that is only inside a
\* constraint given to addConstraint raises unknown-argument, and that
\* constraint is still validated once the tokens are consumed.
C18_ConstraintOnlyUnknown == [][ConstraintOnlyUnknown]_vars

\* --q set h; c is only in the constraint h -> c, and the validation walk
\* threw the constraint error that names c
C18_Witness ==
    /\ phase = "failed"
    /\ op.name = "Validate"
    /\ argv = <<Tok_q>>
    /\ ConstraintOnly # {}
    /\ err.kind = "constraint_error"
    /\ Len(err.who) = 1
    /\ SameArgument(err.who[1], ArgC)

\* The name of the constraint-only argument is unknown to the parser
C18_WitnessName ==
    /\ phase = "failed"
    /\ op.tok = Tok_nmV
    /\ ConstraintOnly # {}
    /\ err = Raise("unknown_argument", <<<<"n", "m">>>>, 0)

\* So is its flag, after h of the same cluster was set
C18_WitnessFlag ==
    /\ phase = "failed"
    /\ op.tok = Tok_hc
    /\ ConstraintOnly # {}
    /\ err = Raise("unknown_argument", <<<<"c">>>>, 0)
    /\ count[ArgH.m_count] = 1

-----------------------------------------------------------------------------
ImpChecked ==
    op'.name = "CallCheckValid" /\ ~IsArg(op'.node) /\ op'.node.ctype = "Imp"

\* The unset children of n that follow a set child, by position
Gaps(n) ==
    {i \in 2..Len(n.m_args) : /\ is_set(n.m_args[i - 1], Here)
                              /\ ~is_set(n.m_args[i], Here)}

ImpChain(n, gaps, failing) ==
    /\ (err'.kind = "none") <=> (gaps = {} /\ failing = {})
    /\ (gaps # {} /\ \A i \in failing : i > SetMin(gaps))
          => err' = Raise("constraint_error", <<n.m_args[SetMin(gaps)]>>, 0)
    /\ (gaps = {} /\ failing # {})
          => err' = check_valid(n.m_args[SetMin(failing)], Here)

ImpCheckValid ==
    ImpChecked => ImpChain(op'.node, Gaps(op'.node), FailingChildren(op'.node))

\* C19: check_valid() on an implication chain passes iff no set child is
\* followed by an unset child and every set child passes its own
\* check_valid(); the first unset child after a set one raises a constraint
\* error naming that child, and an unset child after an unset one is not
\* flagged.
C19_ImpCheckValid == [][ImpCheckValid]_vars

\* a -> b -> e with a set, b and e unset: the error names b only
C19_Witness ==
    /\ op.name = "CallCheckValid"
    /\ ~IsArg(op.node)
    /\ op.node.ctype = "Imp"
    /\ Len(op.node.m_args) = 3
    /\ Gaps(op.node) = {2}
    /\ ~is_set(op.node.m_args[3], Here)
    /\ err = Raise("constraint_error", <<op.node.m_args[2]>>, 0)

\* a and b unset, e set: the chain passes
C19_WitnessLeading ==
    /\ op.name = "CallCheckValid"
    /\ ~IsArg(op.node)
    /\ op.node.ctype = "Imp"
    /\ Len(op.node.m_args) = 3
    /\ SetChildren(op.node) = {3}
    /\ err.kind = "none"

\* a set twice, b set, e unset: a's own check throws before e is looked at
C19_WitnessOwnCheck ==
    /\ op.name = "CallCheckValid"
    /\ ~IsArg(op.node)
    /\ op.node.ctype = "Imp"
    /\ Gaps(op.node) = {3}
    /\ FailingChildren(op.node) = {1}
    /\ err.kind = "argument_count_mismatch"

-----------------------------------------------------------------------------
AnyChecked ==
    op'.name = "CallCheckValid" /\ ~IsArg(op'.node) /\ op'.node.ctype = "Any"

\* The children of n that are required and unset, by position
Missing(n) ==
    {i \in 1..Len(n.m_args) : /\ required(n.m_args[i])
                              /\ ~is_set(n.m_args[i], Here)}

\* The children of n that are set or required and whose own check_valid
\* raises, by position
FailingValidated(n) ==
    {i \in 1..Len(n.m_args) :
        /\ is_set(n.m_args[i], Here) \/ required(n.m_args[i])
        /\ check_valid(n.m_args[i], Here).kind # "none"}

\* The children of s at the positions in S, in order
RECURSIVE ChildrenAt(_, _, _)
ChildrenAt(s, S, i) ==
    IF i > Len(s) THEN <<>>
    ELSE (IF i \in S THEN <<s[i]>> ELSE <<>>) \o ChildrenAt(s, S, i + 1)

MissingError(n) ==
    Raise("constraint_error", ChildrenAt(n.m_args, Missing(n), 1), 0)

AnyPolicy(n, failing, missing) ==
    /\ failing # {} => err' = check_valid(n.m_args[SetMin(failing)], Here)
    /\ (failing = {} /\ missing # {}) => err' = MissingError(n)
    /\ (failing = {} /\ missing = {}) => err'.kind = "none"
    /\ \A i \in missing :
          IsArg(n.m_args[i]) =>
              /\ i \in failing
              /\ check_valid(n.m_args[i], Here).kind = "argument_count_mismatch"

AnyCheckValid ==
    AnyChecked => AnyPolicy(op'.node, FailingValidated(op'.node),
                            Missing(op'.node))

\* C20, as the code has it: check_valid() on an at-least-one-if-required
\* node (an argument set included) first validates every child that is set
\* or required, and the first failure of a child is the failure of the node:
\* a required, unset argument fails there with an occurrence mismatch.  Only
\* when all of them pass does the node fail with the constraint error that
\* lists the required, unset children, iff there is one; an unset child that
\* is not required is skipped.
C20_AnyCheckValid == [][AnyCheckValid]_vars

AnyListsMissing ==
    AnyChecked => ((err' = MissingError(op'.node)) <=> Missing(op'.node) # {})

\* C20 as stated: check_valid() on such a node fails with the constraint
\* error listing the required, unset children iff a child is required and
\* unset.
C20_AnyListsMissing == [][AnyListsMissing]_vars

\* A set, the required chain e -> d unset: the error lists the chain
C20_Witness ==
    /\ op.name = "CallCheckValid"
    /\ ~IsArg(op.node)
    /\ op.node.ctype = "Any"
    /\ Missing(op.node) = {3}
    /\ ~IsArg(op.node.m_args[3])
    /\ FailingValidated(op.node) = {}
    /\ err = Raise("constraint_error", <<op.node.m_args[3]>>, 0)

\* The required argument a is unset: its own occurrence mismatch comes out
C20_WitnessArgument ==
    /\ op.name = "CallCheckValid"
    /\ ~IsArg(op.node)
    /\ op.node.ctype = "Any"
    /\ 1 \in Missing(op.node)
    /\ IsArg(op.node.m_args[1])
    /\ err = Raise("argument_count_mismatch", <<op.node.m_args[1]>>, 1)

\* b is unset and not required, everything else is in order: the set passes
C20_WitnessSkipped ==
    /\ op.name = "CallCheckValid"
    /\ ~IsArg(op.node)
    /\ op.node.ctype = "Any"
    /\ Len(op.node.m_args) = 3
    /\ SetChildren(op.node) = {1, 3}
    /\ err.kind = "none"

-----------------------------------------------------------------------------
\* What the validation walk visits, in its order
WalkNodes == Append(m_argSets, m_constraints)

\* The visited nodes whose check_valid raises, by position
FailingWalk ==
    {i \in 1..Len(WalkNodes) : check_valid(WalkNodes[i], Here).kind # "none"}

WalkOutcome(failing) ==
    IF failing = {} THEN NoErr
    ELSE check_valid(WalkNodes[SetMin(failing)], Here)

\* The errors check_valid raises on the nodes of these programs
ValidationErrors == {"argument_count_mismatch", "constraint_error"}

ValidatedLast ==
    /\ op'.name = "Validate" =>
          /\ phase = "parsing"
          /\ err.kind = "none"
          /\ it = Len(argv) + 1
          /\ err' = WalkOutcome(FailingWalk)
    /\ op'.name \in TokenSteps =>
          /\ it <= Len(argv)
          /\ err'.kind \notin ValidationErrors
          /\ err'.kind # "none" => phase' = "failed"
    /\ phase = "failed" => UNCHANGED vars

\* C21: check_valid() runs on no set and no constraint before the last token
\* has been processed, so a token error pre-empts every validation error;
\* the validation walk then visits the argument sets in the order they were
\* added, then the constraints, and parse ends with the first failure it
\* meets.
C21_ValidatedLast == [][ValidatedLast]_vars

\* Both the argument set and the constraint fail: the set's error comes out
C21_Witness ==
    /\ phase = "failed"
    /\ op.name = "Validate"
    /\ Cardinality(FailingWalk) = 2
    /\ err = check_valid(m_argSets[1], Here)
    /\ err.kind = "argument_count_mismatch"
    /\ check_valid(m_constraints, Here).kind = "constraint_error"

\* Two argument sets fail: the error of the one added first comes out
C21_WitnessSets ==
    /\ phase = "failed"
    /\ op.name = "Validate"
    /\ Len(m_argSets) = 2
    /\ FailingWalk = {1, 2}
    /\ err = check_valid(m_argSets[1], Here)
    /\ err # check_valid(m_argSets[2], Here)

\* A token failed where the validation walk would have failed too
C21_WitnessPreempted ==
    /\ phase = "failed"
    /\ op.name \in TokenSteps
    /\ err.kind = "unknown_argument"
    /\ FailingWalk # {}

-----------------------------------------------------------------------------
\* The events of the last call, without the arguments they are about
EventKinds(lg) == [i \in 1..Len(lg) |-> lg[i][1]]

\* set(token) returned: the value went in and the occurrence was counted
SetValueReturned == op'.name = "CallSetValue" /\ err'.kind = "none"

CheckedOnce ==
    (SetValueReturned /\ op'.node.m_checkFunc # "null")
        => EventKinds(log') = <<"store", "check", "count">>

\* C22: on a successful set(token) of a value-typed argument the check
\* callback is invoked exactly once, after the decoded value is in the
\* storage and before the occurrence counter is incremented.
C22_CheckedOnce == [][CheckedOnce]_vars

\* set("7") with a callback attached: the callback ran before the count and
\* once more after it
C22_CheckedTwice ==
    /\ op.name = "CallSetValue"
    /\ op.tok = <<"7">>
    /\ op.node.m_checkFunc = "pass"
    /\ err.kind = "none"
    /\ EventKinds(log) = <<"store", "check", "count", "check">>
    /\ count[op.node.m_count] = 1

\* What holds: the first invocation is after the store and before the count
CheckedBeforeCount ==
    (SetValueReturned /\ op'.node.m_checkFunc # "null")
        => SubSeq(EventKinds(log'), 1, 3) = <<"store", "check", "count">>

C22_CheckedBeforeCount == [][CheckedBeforeCount]_vars

-----------------------------------------------------------------------------
\* The arguments stored in the parser, in a set or in a constraint
Reachable ==
    Range(AllArgs(m_argSets)) \cup Range(find_all_arguments(m_constraints))

InBounds(a) ==
    /\ a.m_min <= count[a.m_count]
    /\ a.m_max = 0 \/ count[a.m_count] <= a.m_max

\* C23: when parse returns normally, every argument stored in an argument
\* set or in a constraint of the parser that occurred at least once has a
\* count of at least its minimum and, unless its maximum is 0, of at most
\* its maximum.
C23_OccurredInBounds ==
    phase = "done" =>
        \A a \in Reachable : count[a.m_count] > 0 => InBounds(a)

\* h, of minimum 2, occurred twice and parse returned
C23_Witness ==
    /\ phase = "done"
    /\ \E a \in Reachable : a.m_min = 2 /\ count[a.m_count] = 2
    /\ \E a \in Reachable : a.m_min = 1 /\ count[a.m_count] = 1

\* h, of minimum 2, occurred once and parse threw
C23_WitnessBelow ==
    /\ phase = "failed"
    /\ op.name = "Validate"
    /\ \E a \in Reachable : /\ a.m_min = 2 /\ count[a.m_count] = 1
                            /\ err = Raise("argument_count_mismatch", <<a>>, 2)

-----------------------------------------------------------------------------
MultiArgs == {a \in Range(handles) : a.multi}

\* One entry per counted occurrence, now and after the step
EntryPerCount(a) ==
    /\ Len(value[a.m_storage]) = count[a.m_count]
    /\ Len(value'[a.m_storage]) = count'[a.m_count]

\* set(token) on a multi-mode argument: a token that decodes is appended, one
\* that does not leaves the sequence as it was
MultiSet(a, tok, x) ==
    IF ~x.fail /\ x.rest = <<>>
    THEN value'[a.m_storage] = Append(value[a.m_storage], x.val)
    ELSE /\ err'.kind = "argument_invalid_value"
         /\ value'[a.m_storage] = value[a.m_storage]
         /\ count'[a.m_count] = count[a.m_count]

MultiSetCalled ==
    (op'.name = "CallSetValue" /\ op'.node.multi)
        => MultiSet(op'.node, op'.tok, Extract(op'.node.vtype, op'.tok))

OnePerOccurrence ==
    /\ \A a \in MultiArgs : a.m_checkFunc # "throw" => EntryPerCount(a)
    /\ MultiSetCalled

C24_WitnessThrown ==
    /\ op.name = "CallSetValue"
    /\ op.node.multi
    /\ err.kind = "exception"
    /\ count[op.node.m_count] = 0
    /\ Len(value[op.node.m_storage]) = 1

-----------------------------------------------------------------------------
\* set() on a plain argument a: counted, then checked
CountedThenChecked(a) ==
    /\ count'[a.m_count] = count[a.m_count] + 1
    /\ EventKinds(log') = IF a.m_checkFunc = "null" THEN <<"count">>
                          ELSE <<"count", "check">>
    /\ err' = IF a.m_checkFunc = "throw"
              THEN Raise("exception", <<a>>, 0) ELSE NoErr

PlainSet ==
    (op'.name = "CallSet" /\ op'.node.klass = "basic")
        => CountedThenChecked(op'.node)

\* C25: set() on a plain declared argument increments the occurrence counter
\* before it invokes the check callback, so a failure of the callback
\* reaches the caller of set() with the counter incremented.
C25_PlainSet == [][PlainSet]_vars

\* The callback threw: the exception is out and the occurrence is counted
C25_Witness ==
    /\ op.name = "CallSet"
    /\ op.node.klass = "basic"
    /\ op.node.m_checkFunc = "throw"
    /\ err = Raise("exception", <<op.node>>, 0)
    /\ EventKinds(log) = <<"count", "check">>
    /\ count[op.node.m_count] = 1

-----------------------------------------------------------------------------
MutatorSteps == {"CallMin", "CallMax", "CallMany", "CallSetRequired",
                 "CallAlias", "CallCheck"}

\* What the parser answers to a flag, and what validation says, over the
\* given sets and constraints
StoredBehaviour(argSets, constraints) ==
    [lookup |-> [f \in {"a", "b", "e"} |-> findArg(argSets, ByFlag(f), Here)],
     valid  |-> parse_validate(argSets, constraints, Here),
     nodes  |-> [i \in 1..Len(argSets) |-> check_valid(argSets[i], Here)]]

CopiesKeepMembers ==
    /\ op'.name \in MutatorSteps =>
          /\ count' = count
          /\ value' = value
          /\ StoredBehaviour(m_argSets', m_constraints')
                 = StoredBehaviour(m_argSets, m_constraints)
    /\ (op'.name = "CallSet" /\ op'.node = handles[1]) =>
          \A c \in ParserCopies :
              SameArgument(c, handles[1])
                  => count'[c.m_count] = count[c.m_count] + 1

\* C26: an argument and its copies share the occurrence counter and the
\* value cell and nothing else: a change of required, min, max, the aliases
\* or the check callback on the caller's handle, made after the argument
\* was added, leaves the matching and the check_valid() of the stored copy
\* as they were, while a set() on the handle counts for the copy.
C26_CopiesKeepMembers == [][CopiesKeepMembers]_vars

\* The handle was made unbounded after the add; two occurrences later the
\* stored copy still fails its maximum of 1
C26_Witness ==
    /\ op.name = "CallCheckValid"
    /\ op.node = m_argSets[1]
    /\ handles[1].m_max = 0
    /\ count[handles[1].m_count] = 2
    /\ check_valid(handles[1], Here).kind = "none"
    /\ err.kind = "argument_count_mismatch"
    /\ SameArgument(err.who[1], handles[1])
    /\ err.who[1].m_max = DefaultMax

\* The handle got the alias e; the parser does not know the flag
C26_WitnessAlias ==
    /\ op.name = "CallAlias"
    /\ matchesFlag(handles[1], "e")
    /\ findArg(m_argSets, ByFlag("e"), Here) = Null

-----------------------------------------------------------------------------
\* How many times the parse just made counted an argument with this counter
CountedInto(c, lg) ==
    LET ev == CountEvents(lg)
    IN  Cardinality({i \in 1..Len(ev) :
                        \E a \in ParserCopies :
                            a.description = ev[i] /\ a.m_count = c})

ParseAccumulates ==
    op'.name = "CallParse" =>
        /\ \A c \in Cells :
              /\ count'[c] >= count[c]
              /\ count'[c] = count[c] + CountedInto(c, log')
        /\ (/\ op.name = "CallParse"
            /\ op.tok = Tok_a
            /\ err.kind = "none"
            /\ op'.tok = Tok_a
            /\ \A a \in FlagArgs("a") : a.m_max = 1)
               => /\ err'.kind = "argument_count_mismatch"
                  /\ \A a \in FlagArgs("a") : count'[a.m_count] >= 2

\* C27: parse never resets or decreases an occurrence counter: a parse
\* starts from the counts the calls before it left and adds what it counts,
\* so ["-a"] parsed twice against a flag with max 1 fails the second time
\* with a count mismatch.
C27_ParseAccumulates == [][ParseAccumulates]_vars

\* The second parse of -a has thrown the mismatch at a count of 2
C27_Witness ==
    /\ op.name = "CallParse"
    /\ op.tok = Tok_a
    /\ \E a \in FlagArgs("a") :
          /\ a.m_max = 1
          /\ count[a.m_count] = 2
          /\ err.kind = "argument_count_mismatch"
          /\ err.who[1] = a

-----------------------------------------------------------------------------
IsPrefixOf(s, t) == Len(s) <= Len(t) /\ SubSeq(t, 1, Len(s)) = s

UsageAppendOnly ==
    LET before == usage(UsageNode)
        after  == usage(UsageNode')
    IN  /\ op'.name # "CallAdd" => after = before
        /\ op'.name = "CallAdd" => IsPrefixOf(before, after)
        /\ op'.name = "CallUsage" => op'.tok = before

\* C28: the usage string of a constraint node changes only through add,
\* which appends to it: the string before is a prefix of the string after.
\* Every usage() call between two adds returns the same string, whatever
\* set() calls and changes of a required flag happen in between.
C28_UsageAppendOnly == [][UsageAppendOnly]_vars

\* The first child was added optional and shows in brackets; its handle was
\* made required before it was added again, and the first part has stayed
C28_Witness ==
    /\ op.name = "CallUsage"
    /\ UsageNode.ctype = "Any"
    /\ handles[1].m_required
    /\ count[handles[1].m_count] > 0
    /\ op.tok = <<"[ ", "-", "a", " ]", " ", "-", "a">>

\* A nested exactly-one node shows in parentheses, the new child after it
C28_WitnessNested ==
    /\ op.name = "CallAdd"
    /\ UsageNode.ctype = "Imp"
    /\ usage(UsageNode) = <<"( ", "-", "a", " | ", "-", "b", " )", " ", "-", "b">>

-----------------------------------------------------------------------------
AllChecked == op.name = "CallCheckValid" /\ ~IsArg(op.node) /\ op.node.ctype = "All"

ChildrenPass(n) ==
    \A i \in 1..Len(n.m_args) : check_valid(n.m_args[i], Here).kind = "none"

Unset(n) ==
    LET NotSet(c) == ~is_set(c, Here)
    IN  SelectSeq(n.m_args, NotSet)

AllOrNone(n) ==
    \/ Unset(n) = <<>>
    \/ Unset(n) = n.m_args /\ ~required(n)

\* C29: in the sources that have the All kind, check_valid() on an All node
\* whose children each pass their own check_valid() passes iff every child
\* is set, or no child is set and the node is not required; otherwise it
\* raises a constraint error that lists the unset children.
C29_AllCheckValid ==
    (AllChecked /\ ChildrenPass(op.node)) =>
        IF AllOrNone(op.node)
        THEN err = NoErr
        ELSE err = Raise("constraint_error", Unset(op.node), 0)

\* One child of two is set: the error lists the other one
C29_Witness ==
    /\ AllChecked
    /\ ChildrenPass(op.node)
    /\ ~required(op.node)
    /\ Len(op.node.m_args) = 2
    /\ Len(Unset(op.node)) = 1
    /\ err.kind = "constraint_error"
    /\ err.who = Unset(op.node)

\* Nothing is set and the node is required: every child is listed
C29_WitnessRequired ==
    /\ AllChecked
    /\ required(op.node)
    /\ Unset(op.node) = op.node.m_args
    /\ Len(op.node.m_args) = 3
    /\ err.kind = "constraint_error"
    /\ Len(err.who) = 3

\* Every child is set, a nested node among them, and the check passes
C29_WitnessAllSet ==
    /\ AllChecked
    /\ Len(op.node.m_args) = 3
    /\ Unset(op.node) = <<>>
    /\ err = NoErr

\* Nothing is set, the node is not required, and the check passes
C29_WitnessNone ==
    /\ AllChecked
    /\ Len(op.node.m_args) = 2
    /\ Unset(op.node) = op.node.m_args
    /\ ~required(op.node)
    /\ err = NoErr

\* A child fails its own check: its error is what the node raises
C29_WitnessChild ==
    /\ AllChecked
    /\ ~ChildrenPass(op.node)
    /\ err.kind = "argument_count_mismatch"

-----------------------------------------------------------------------------
\* The iterator stays between the first token and the end of the vector
IteratorInRange == phase # "idle" => it \in 1..(Len(argv) + 1)

\* A turn of the loop reads the token under the iterator and moves forward:
\* by one, or by two when the next token was taken as the value of an option
IteratorForward ==
    /\ op'.name \in TokenSteps =>
          /\ it <= Len(argv)
          /\ op'.tok = argv[it]
          /\ it' \in {it, it + 1, it + 2}
          /\ it' <= Len(argv) + 1
          /\ phase' = "parsing" => it' > it
          /\ (phase' = "parsing" /\ it' = it + 2) =>
                /\ op'.name \in {"ParseNamed", "ParseFlags"}
                /\ \E a \in ParserCopies :
                      /\ takes_value(a)
                      /\ count'[a.m_count] = count[a.m_count] + 1
    /\ op'.name = "Validate" => it' = it /\ it = Len(argv) + 1
    /\ argv # argv' => op'.name = "StartParse"

\* C30: parse terminates on every finite argument vector: the token index
\* only moves forward, each token is consumed once at most (as a named
\* option, a flag cluster, a positional or the value of the option before
\* it), and the parser never reads past the end of the vector.
C30_Terminates ==
    /\ []IteratorInRange
    /\ [][IteratorForward]_vars
    /\ (phase = "parsing") ~> Finished

\* A parse over three tokens has returned; the second token went in as the
\* value of the first, the third as the positional
C30_Witness ==
    /\ phase = "done"
    /\ argv = <<Tok_nm, Tok_7, Tok_7>>
    /\ it = 4

\* The value was asked for at the end of the vector: the parse has thrown
\* without reading there
C30_WitnessMissing ==
    /\ phase = "failed"
    /\ err.kind = "argument_missing_value"
    /\ it = Len(argv) + 1
    /\ Len(argv) = MaxArgc
=============================================================================
